---- MODULE Spec2Model ----
(***************************************************************************)
(* Structural-analysis engine of auto-structure-analysis:                  *)
(*   backend/app/services/materials.py   get_material                      *)
(*   backend/app/services/fea_solver.py  solve, solve_with_combinations,   *)
(*                                       get_envelope_results              *)
(*                                                                         *)
(* Numbers.  Python floats are modelled in fixed point:                    *)
(*   force            N          (integers)                                *)
(*   load factor      tenths     (1.2 is 12)                               *)
(*   moment           N*mm                                                 *)
(*   stress           0.01 MPa                                             *)
(*   stress ratio     1/1000     (0.8 is 800, 1.0 is 1000)                 *)
(*   displacement     0.001 mm                                             *)
(* The two thresholds 0.8 and 1.0 are exact in these units.                *)
(*                                                                         *)
(* Structures.  The models analysed are horizontal chains of nodes         *)
(* 1..n, equally spaced, member i joining node i and node i+1.  The        *)
(* finite-element library (PyNite) is not part of the repository; its      *)
(* analysis is modelled by the statics of such a chain (Analyze below).    *)
(***************************************************************************)
EXTENDS Integers, Sequences, FiniteSets, TLC

(* ------------------------------ bounds --------------------------------- *)
MaxChain == 3
MaxCombos == 2

(* --------------------------- small helpers ----------------------------- *)
Abs(x) == IF x < 0 THEN 0 - x ELSE x

\* Python's max(a, b): b only when b > a
PyMax(a, b) == IF b > a THEN b ELSE a

SetMax(S) == CHOOSE x \in S : \A y \in S : y <= x
SetMin(S) == CHOOSE x \in S : \A y \in S : x <= y

RECURSIVE SumOver(_, _)
SumOver(f, S) ==
    IF S = {} THEN 0
    ELSE LET x == CHOOSE y \in S : TRUE IN f[x] + SumOver(f, S \ {x})

\* math.sqrt, rounded down to the displacement unit
Sqrt(n) ==
    LET RECURSIVE Bisect(_, _)
        Bisect(lo, hi) ==
            IF hi - lo <= 1 THEN lo
            ELSE LET mid == (lo + hi) \div 2
                 IN IF mid * mid <= n THEN Bisect(mid, hi) ELSE Bisect(lo, mid)
    IN Bisect(0, 46341)

SeqRange(s) == { s[i] : i \in 1..Len(s) }

\* x * 1000 / k, rounded toward zero
Scale(x, k) == IF x >= 0 THEN (x * 1000) \div k ELSE 0 - (((0 - x) * 1000) \div k)

(* ----------------------------- materials ------------------------------- *)
MaterialKeys == {"steel", "aluminum", "wood"}

_MATERIALS ==
    [k \in MaterialKeys |->
        CASE k = "steel"    -> [name |-> "steel",    E |-> 200000, fy |-> 250, density |-> 7850,
                                description |-> "Structural Steel (A36)"]
          [] k = "aluminum" -> [name |-> "aluminum", E |-> 69000,  fy |-> 270, density |-> 2700,
                                description |-> "Aluminum Alloy (6061-T6)"]
          [] k = "wood"     -> [name |-> "wood",     E |-> 12000,  fy |-> 40,  density |-> 550,
                                description |-> "Wood (Southern Pine)"]]

\* str.lower on the names the model uses
Lower(name) ==
    CASE name = "STEEL" -> "steel"
      [] name = "Steel" -> "steel"
      [] name = "ALUMINUM" -> "aluminum"
      [] name = "Wood" -> "wood"
      [] name = "Concrete" -> "concrete"
      [] OTHER -> name

\* get_material that looks the name up as it is written
get_material_exact(name) ==
    LET n == name
    IN IF n \notin DOMAIN _MATERIALS
       THEN [ok |-> FALSE,
             error |-> [kind |-> "ValueError", text |-> "Unknown material", subject |-> n]]
       ELSE [ok |-> TRUE, value |-> _MATERIALS[n]]

get_material(name) ==
    LET n == Lower(name)
    IN IF n \notin DOMAIN _MATERIALS
       THEN [ok |-> FALSE,
             error |-> [kind |-> "ValueError", text |-> "Unknown material", subject |-> n]]
       ELSE [ok |-> TRUE, value |-> _MATERIALS[n]]

\* list(_MATERIALS.values()): the presets in the order of the dict
list_materials == <<_MATERIALS["steel"], _MATERIALS["aluminum"], _MATERIALS["wood"]>>

(* ------------------------- the structural model ------------------------ *)
\* node i of a chain: the nodes are 100 mm apart on the x axis
Node(i) == [id |-> i, x |-> (i - 1) * 100, y |-> 0]
Member(i) == [id |-> i, start_node |-> i, end_node |-> i + 1]
Support(node, type) == [node_id |-> node, type |-> type]
Load(node, fx, fy) == [node_id |-> node, fx |-> fx, fy |-> fy]

StructuralModel(kind, n, supports) ==
    [structure_type |-> kind,
     nodes |-> [i \in 1..n |-> Node(i)],
     members |-> [i \in 1..(n - 1) |-> Member(i)],
     supports |-> supports]

NodeIds(model) == { model.nodes[i].id : i \in 1..Len(model.nodes) }

(* ------------------ solve: building the PyNite model ------------------- *)
\* cross-sectional properties by structure type
Section(is_frame) ==
    IF is_frame THEN [A |-> 1000, Iz |-> 50000] ELSE [A |-> 500, Iz |-> 5000]

depth == 30

\* in-plane restraint of a node before any support is applied
NodeRestraint(is_frame) == [DX |-> FALSE, DY |-> FALSE, RZ |-> ~is_frame]

\* SupportRestraint with a roller that holds the horizontal translation too
SupportRestraint_rollerx(type, is_frame) ==
    CASE type = "pin"    -> [DX |-> TRUE, DY |-> TRUE, RZ |-> ~is_frame]
      [] type = "roller" -> [DX |-> TRUE, DY |-> TRUE, RZ |-> ~is_frame]
      [] type = "fixed"  -> [DX |-> TRUE, DY |-> TRUE, RZ |-> TRUE]

\* in-plane restraint def_support sets for a support record
SupportRestraint(type, is_frame) ==
    CASE type = "pin"    -> [DX |-> TRUE,  DY |-> TRUE, RZ |-> ~is_frame]
      [] type = "roller" -> [DX |-> FALSE, DY |-> TRUE, RZ |-> ~is_frame]
      [] type = "fixed"  -> [DX |-> TRUE,  DY |-> TRUE, RZ |-> TRUE]

\* the support loop: each record overrides what the node had
RECURSIVE def_supports(_, _, _)
def_supports(restraint, supports, is_frame) ==
    IF supports = << >> THEN restraint
    ELSE LET s == Head(supports)
         IN def_supports([restraint EXCEPT ![s.node_id] = SupportRestraint(s.type, is_frame)],
                         Tail(supports), is_frame)

\* the in-plane restraint of every node once the node loop and the support
\* loop have run
Restraints(model) ==
    LET is_frame == model.structure_type = "frame"
    IN def_supports([i \in 1..Len(model.nodes) |-> NodeRestraint(is_frame)],
                    model.supports, is_frame)

\* the load loop: add_node_load is called per nonzero component, and the
\* loads of a node add up in the load vector
RECURSIVE NodeLoad(_, _, _)
NodeLoad(loads, node, dir) ==
    IF loads = << >> THEN 0
    ELSE LET l == Head(loads)
             v == IF l.node_id # node THEN 0 ELSE IF dir = "FX" THEN l.fx ELSE l.fy
         IN v + NodeLoad(Tail(loads), node, dir)

\* node ids the model-building calls look up in fem.nodes
ReferencedNodes(model, loads) ==
    { model.members[i].start_node : i \in 1..Len(model.members) }
    \cup { model.members[i].end_node : i \in 1..Len(model.members) }
    \cup { model.supports[i].node_id : i \in 1..Len(model.supports) }
    \cup { loads[i].node_id : i \in { j \in 1..Len(loads) : loads[j].fx # 0 \/ loads[j].fy # 0 } }

(* ---------------- the analysis of a chain (PyNite) --------------------- *)
\* force in member i of a chain of n nodes with nodal loads P and
\* restrained nodes R (tension positive); equal member stiffness
ChainForce(P, R, n, i) ==
    LET Lefts == { r \in R : r <= i }
        Rights == { r \in R : r >= i + 1 }
    IN IF Lefts = {} THEN 0 - SumOver(P, 1..i)
       ELSE IF Rights = {} THEN SumOver(P, (i + 1)..n)
       ELSE LET a == SetMax(Lefts)
                b == SetMin(Rights)
                w == [j \in (a + 1)..(b - 1) |-> P[j] * (b - j)]
                c == SumOver(w, (a + 1)..(b - 1)) \div (b - a)
            IN c - SumOver(P, (a + 1)..i)

\* reaction at restrained node r: equilibrium of the node
ChainReaction(P, R, n, r) ==
    (IF r > 1 THEN ChainForce(P, R, n, r - 1) ELSE 0)
    - (IF r < n THEN ChainForce(P, R, n, r) ELSE 0)
    - P[r]

\* displacement of node k from the member elongations e
ChainDisp(e, R, n, k) ==
    LET Lefts == { r \in R : r <= k }
    IN IF k \in R THEN 0
       ELSE IF Lefts # {} THEN SumOver(e, SetMax(Lefts)..(k - 1))
       ELSE 0 - SumOver(e, k..(SetMin(R) - 1))

\* cantilever fixed at node 1: moment at node k from the loads beyond it
\* (a downward load gives a positive moment)
CantileverMoment(P, L, n, k) ==
    LET w == [j \in (k + 1)..n |-> P[j] * (j - k) * L]
    IN 0 - SumOver(w, (k + 1)..n)

\* cantilever fixed at node 1: deflection factor of node k under the loads
CantileverDeflection(P, n, k) ==
    LET w == [j \in 2..n |->
                LET m == IF k < j THEN k - 1 ELSE j - 1
                    M == IF k < j THEN j - 1 ELSE k - 1
                IN P[j] * m * m * (3 * M - m)]
    IN SumOver(w, 2..n)

Analyze(model, loads, material) ==
    LET is_frame == model.structure_type = "frame"
        n == Len(model.nodes)
        sec == Section(is_frame)
        L == model.nodes[2].x - model.nodes[1].x
        restraint == Restraints(model)
        RX == { i \in 1..n : restraint[i].DX }
        RY == { i \in 1..n : restraint[i].DY }
        Px == [i \in 1..n |-> NodeLoad(loads, i, "FX")]
        Py == [i \in 1..n |-> NodeLoad(loads, i, "FY")]
        singular == \/ RX = {}
                    \/ RY = {}
                    \/ is_frame /\ ~(restraint[1].DY /\ restraint[1].RZ)
        kx == (material.E * sec.A) \div L
        ky == (12 * (material.E \div 1000) * sec.Iz) \div ((L * L * L) \div 1000)
        k6 == (6 * (material.E \div 1000) * sec.Iz) \div ((L * L * L) \div 1000)
        axial == [i \in 1..(n - 1) |-> ChainForce(Px, RX, n, i)]
        shear == [i \in 1..(n - 1) |-> ChainForce(Py, RY, n, i)]
        moment == [i \in 1..(n - 1) |->
                    IF is_frame
                    THEN PyMax(CantileverMoment(Py, L, n, i), CantileverMoment(Py, L, n, i + 1))
                    ELSE (Abs(shear[i]) * L) \div 2]
        ex == [i \in 1..(n - 1) |-> Scale(axial[i], kx)]
        ey == [i \in 1..(n - 1) |-> Scale(shear[i], ky)]
    IN IF singular
       THEN [ok |-> FALSE,
             error |-> [kind |-> "Exception", text |-> "The stiffness matrix is singular",
                        subject |-> "analyze"]]
       ELSE [ok |-> TRUE,
             axial |-> axial, shear |-> shear, moment |-> moment,
             RxnFX |-> [i \in 1..n |-> IF i \in RX THEN ChainReaction(Px, RX, n, i) ELSE 0],
             RxnFY |-> [i \in 1..n |-> IF i \in RY THEN ChainReaction(Py, RY, n, i) ELSE 0],
             DX |-> [i \in 1..n |-> ChainDisp(ex, RX, n, i)],
             DY |-> [i \in 1..n |->
                        IF is_frame THEN Scale(CantileverDeflection(Py, n, i), k6)
                        ELSE ChainDisp(ey, RY, n, i)]]

(* -------------------------------- solve -------------------------------- *)
SolverError(e) ==
    [kind |-> "SolverError", text |-> "FEA analysis failed", cause |-> e]

NoError == [kind |-> "none", text |-> "", cause |-> [kind |-> "none", text |-> "", subject |-> ""]]

NoResults ==
    [member_forces |-> << >>, reactions |-> << >>, max_deflection |-> 0,
     safety_status |-> "none", max_stress_ratio |-> 0, nodes_with_displacements |-> << >>]

\* SafetyStatus with the FAIL threshold exclusive
SafetyStatus_exclusive(max_stress_ratio) ==
    IF max_stress_ratio > 1000 THEN "FAIL"
    ELSE IF max_stress_ratio >= 800 THEN "WARNING"
    ELSE "PASS"

\* the safety status of a maximum stress ratio
SafetyStatus(max_stress_ratio) ==
    IF max_stress_ratio >= 1000 THEN "FAIL"
    ELSE IF max_stress_ratio >= 800 THEN "WARNING"
    ELSE "PASS"

\* the safety status get_envelope_results derives from the overall maximum
EnvelopeSafetyStatus(overall_max_stress_ratio) ==
    IF overall_max_stress_ratio >= 1000 THEN "FAIL"
    ELSE IF overall_max_stress_ratio >= 800 THEN "WARNING"
    ELSE "PASS"

\* MemberStress from the signed axial force and moment
MemberStress_signed(is_frame, axial, moment) ==
    LET sec == Section(is_frame)
        axial_stress == (axial * 100) \div sec.A
        bending_stress == (moment * (depth \div 2)) \div (sec.Iz \div 100)
    IN IF is_frame THEN axial_stress + bending_stress ELSE axial_stress

\* stress of a member from its axial force and moment
MemberStress(is_frame, axial, moment) ==
    LET sec == Section(is_frame)
        axial_stress == (Abs(axial) * 100) \div sec.A
        bending_stress == (Abs(moment) * (depth \div 2)) \div (sec.Iz \div 100)
    IN IF is_frame THEN axial_stress + bending_stress ELSE axial_stress

\* StressRatio that never reports more than 1.0
StressRatio_capped(stress, material) ==
    IF (stress * 10) \div material.fy > 1000 THEN 1000 ELSE (stress * 10) \div material.fy

\* stress_ratio = stress / material.fy
StressRatio(stress, material) == (stress * 10) \div material.fy

\* MaxStressRatio keeping the ratio of the member visited last
RECURSIVE MaxStressRatio_last(_, _)
MaxStressRatio_last(member_forces, acc) ==
    IF member_forces = << >> THEN acc
    ELSE MaxStressRatio_last(Tail(member_forces), Head(member_forces).stress_ratio)

\* max_stress_ratio after the member loop: starts at 0.0
RECURSIVE MaxStressRatio(_, _)
MaxStressRatio(member_forces, acc) ==
    IF member_forces = << >> THEN acc
    ELSE MaxStressRatio(Tail(member_forces), PyMax(acc, Head(member_forces).stress_ratio))

\* max_deflection after the node loop: starts at 0.0
RECURSIVE MaxDeflection(_, _)
MaxDeflection(nodes, acc) ==
    IF nodes = << >> THEN acc
    ELSE LET nd == Head(nodes)
             deflection == Sqrt(nd.displacement_x * nd.displacement_x
                                + nd.displacement_y * nd.displacement_y)
         IN MaxDeflection(Tail(nodes), PyMax(acc, deflection))

\* Reactions listed from the last support record to the first
Reactions_reversed(model, fem) ==
    [i \in 1..Len(model.supports) |->
        LET node_id == model.supports[Len(model.supports) + 1 - i].node_id
        IN [node_id |-> node_id, rx |-> fem.RxnFX[node_id], ry |-> fem.RxnFY[node_id]]]

\* Reactions reading the horizontal reaction for both components
Reactions_rxonly(model, fem) ==
    [i \in 1..Len(model.supports) |->
        LET node_id == model.supports[i].node_id
        IN [node_id |-> node_id, rx |-> fem.RxnFX[node_id], ry |-> fem.RxnFX[node_id]]]

\* one Reaction per support record, read from the analysed node
Reactions(model, fem) ==
    [i \in 1..Len(model.supports) |->
        LET node_id == model.supports[i].node_id
        IN [node_id |-> node_id, rx |-> fem.RxnFX[node_id], ry |-> fem.RxnFY[node_id]]]

\* the results solve builds from an analysed model
ExtractResults(model, material, fem) ==
    LET is_frame == model.structure_type = "frame"
        member_forces ==
            [i \in 1..Len(model.members) |->
                LET id == model.members[i].id
                    stress == MemberStress(is_frame, fem.axial[id], fem.moment[id])
                IN [member_id |-> id,
                    axial |-> fem.axial[id],
                    shear |-> fem.shear[id],
                    moment |-> fem.moment[id],
                    stress |-> stress,
                    stress_ratio |-> StressRatio(stress, material)]]
        reactions == Reactions(model, fem)
        nodes_with_displacements ==
            [i \in 1..Len(model.nodes) |->
                LET node == model.nodes[i]
                IN [id |-> node.id, x |-> node.x, y |-> node.y,
                    displacement_x |-> fem.DX[node.id],
                    displacement_y |-> fem.DY[node.id]]]
        max_stress_ratio == MaxStressRatio(member_forces, 0)
    IN [member_forces |-> member_forces,
        reactions |-> reactions,
        max_deflection |-> MaxDeflection(nodes_with_displacements, 0),
        safety_status |-> SafetyStatus(max_stress_ratio),
        max_stress_ratio |-> max_stress_ratio,
        nodes_with_displacements |-> nodes_with_displacements]

\* WrapError that lets the exception through as it is
WrapError_bare(e) == [kind |-> e.kind, text |-> e.text, cause |-> e]

\* what the try block of solve catches and wraps
WrapError(e) == SolverError(e)

\* solve(model, loads, material_name): the outcome and the stages reached
solve(model, loads, material_name) ==
    LET mat == get_material(material_name)
        missing == ReferencedNodes(model, loads) \ NodeIds(model)
        fem == Analyze(model, loads, mat.value)
    IN IF ~mat.ok
       THEN [raised |-> TRUE, error |-> WrapError(mat.error), value |-> NoResults,
             stages |-> <<"get_material">>]
       ELSE IF missing # {}
       THEN [raised |-> TRUE,
             error |-> WrapError([kind |-> "KeyError", text |-> "node", subject |-> "model"]),
             value |-> NoResults,
             stages |-> <<"get_material", "FEModel3D">>]
       ELSE IF ~fem.ok
       THEN [raised |-> TRUE, error |-> WrapError(fem.error), value |-> NoResults,
             stages |-> <<"get_material", "FEModel3D", "analyze">>]
       ELSE [raised |-> FALSE, error |-> NoError,
             value |-> ExtractResults(model, mat.value, fem),
             stages |-> <<"get_material", "FEModel3D", "analyze", "extract">>]

(* ----------------------- solve_with_combinations ----------------------- *)
LoadCase(name, type, loads) == [name |-> name, type |-> type, loads |-> loads]
LoadCombination(name, factors) == [name |-> name, factors |-> factors]
Factor(case_name, factor) == [case_name |-> case_name, factor |-> factor]

\* load.fx * factor, the factor in tenths
Times(v, factor) == (v * factor) \div 10

\* {lc.name: lc for lc in load_cases}: a later case of a name wins
load_case_map(load_cases) ==
    [nm \in { load_cases[i].name : i \in 1..Len(load_cases) } |->
        load_cases[SetMax({ i \in 1..Len(load_cases) : load_cases[i].name = nm })]]

\* AddFactoredLoad that assigns the factored components instead of adding
AddFactoredLoad_assign(load_map, load, factor) ==
    LET present == \E i \in 1..Len(load_map) : load_map[i].node_id = load.node_id
        lm == IF present THEN load_map ELSE Append(load_map, Load(load.node_id, 0, 0))
    IN [i \in 1..Len(lm) |->
          IF lm[i].node_id = load.node_id
          THEN [lm[i] EXCEPT !.fx = Times(load.fx, factor),
                             !.fy = Times(load.fy, factor)]
          ELSE lm[i]]

\* one pass of the inner loop: the node's entry is created at zero when
\* absent and the factored components are added to it
AddFactoredLoad(load_map, load, factor) ==
    LET present == \E i \in 1..Len(load_map) : load_map[i].node_id = load.node_id
        lm == IF present THEN load_map ELSE Append(load_map, Load(load.node_id, 0, 0))
    IN [i \in 1..Len(lm) |->
          IF lm[i].node_id = load.node_id
          THEN [lm[i] EXCEPT !.fx = @ + Times(load.fx, factor),
                             !.fy = @ + Times(load.fy, factor)]
          ELSE lm[i]]

RECURSIVE AddCaseLoads(_, _, _)
AddCaseLoads(load_map, loads, factor) ==
    IF loads = << >> THEN load_map
    ELSE AddCaseLoads(AddFactoredLoad(load_map, Head(loads), factor), Tail(loads), factor)

\* CombineLoads that passes over a case name it does not find
RECURSIVE CombineLoads_skip(_, _, _)
CombineLoads_skip(load_map, factors, cases) ==
    IF factors = << >> THEN [ok |-> TRUE, combined_loads |-> load_map, case_name |-> ""]
    ELSE LET f == Head(factors)
         IN IF f.case_name \notin DOMAIN cases
            THEN CombineLoads_skip(load_map, Tail(factors), cases)
            ELSE CombineLoads_skip(AddCaseLoads(load_map, cases[f.case_name].loads, f.factor),
                                   Tail(factors), cases)

\* the loop over combo.factors.items(): the combined loads, or the first
\* case name that is not in the load case map
RECURSIVE CombineLoads(_, _, _)
CombineLoads(load_map, factors, cases) ==
    IF factors = << >> THEN [ok |-> TRUE, combined_loads |-> load_map, case_name |-> ""]
    ELSE LET f == Head(factors)
         IN IF f.case_name \notin DOMAIN cases
            THEN [ok |-> FALSE, combined_loads |-> << >>, case_name |-> f.case_name]
            ELSE CombineLoads(AddCaseLoads(load_map, cases[f.case_name].loads, f.factor),
                              Tail(factors), cases)

LoadCaseNotFound(case_name) ==
    [kind |-> "SolverError", text |-> "Load case not found",
     cause |-> [kind |-> "none", text |-> "", subject |-> case_name]]

\* DictSet under one fixed key: the map only holds the latest result
DictSet_onekey(results, name, value) == <<[name |-> name, result |-> value]>>

\* results[combo.name] = combo_results on an insertion-ordered dict
DictSet(results, name, value) ==
    IF \E i \in 1..Len(results) : results[i].name = name
    THEN [i \in 1..Len(results) |->
            IF results[i].name = name THEN [name |-> name, result |-> value] ELSE results[i]]
    ELSE Append(results, [name |-> name, result |-> value])

\* RunCombinations with a load_map that outlives the combination: the sums
\* of a combination start from the sums of the one before it
RECURSIVE RunCombinations_carry(_, _, _, _, _, _)
RunCombinations_carry(model, cases, combinations, material_name, results, runs) ==
    IF combinations = << >>
    THEN [raised |-> FALSE, error |-> NoError, value |-> results, runs |-> runs]
    ELSE LET combo == Head(combinations)
             carried == IF runs = << >> THEN << >> ELSE runs[Len(runs)].loads
             comb == CombineLoads(carried, combo.factors, cases)
             combo_results == solve(model, comb.combined_loads, material_name)
             run == [combo |-> combo.name, loads |-> comb.combined_loads,
                     stages |-> combo_results.stages]
         IN IF ~comb.ok
            THEN [raised |-> TRUE, error |-> LoadCaseNotFound(comb.case_name),
                  value |-> << >>, runs |-> runs]
            ELSE IF combo_results.raised
            THEN [raised |-> TRUE, error |-> combo_results.error,
                  value |-> << >>, runs |-> Append(runs, run)]
            ELSE RunCombinations_carry(model, cases, Tail(combinations), material_name,
                                       DictSet(results, combo.name, combo_results.value),
                                       Append(runs, run))

\* the loop over the combinations, from the results and solver runs so far
RECURSIVE RunCombinations(_, _, _, _, _, _)
RunCombinations(model, cases, combinations, material_name, results, runs) ==
    IF combinations = << >>
    THEN [raised |-> FALSE, error |-> NoError, value |-> results, runs |-> runs]
    ELSE LET combo == Head(combinations)
             comb == CombineLoads(<< >>, combo.factors, cases)
             combo_results == solve(model, comb.combined_loads, material_name)
             run == [combo |-> combo.name, loads |-> comb.combined_loads,
                     stages |-> combo_results.stages]
         IN IF ~comb.ok
            THEN [raised |-> TRUE, error |-> LoadCaseNotFound(comb.case_name),
                  value |-> << >>, runs |-> runs]
            ELSE IF combo_results.raised
            THEN [raised |-> TRUE, error |-> combo_results.error,
                  value |-> << >>, runs |-> Append(runs, run)]
            ELSE RunCombinations(model, cases, Tail(combinations), material_name,
                                 DictSet(results, combo.name, combo_results.value),
                                 Append(runs, run))

solve_with_combinations(model, load_cases, combinations, material_name) ==
    RunCombinations(model, load_case_map(load_cases), combinations, material_name,
                    << >>, << >>)

(* ------------- the Load objects of solve_with_combinations ------------- *)
\* The loops above give the values of the combined loads.  The loops below
\* follow the same statements on the Load objects themselves, to tell which
\* objects the statements write to.  An object is named by a reference:
\* load number at of load case number case, or, with case 0, the Load
\* number at that the combination has created.
Ref(case, at) == [case |-> case, at |-> at]

\* the fields of the Load objects: those of the load cases, those created
Heap(cases, created) == [cases |-> cases, created |-> created]

Deref(heap, ref) ==
    IF ref.case = 0 THEN heap.created[ref.at] ELSE heap.cases[ref.case][ref.at]

\* target.fx += v
AddToFx(heap, ref, v) ==
    IF ref.case = 0 THEN [heap EXCEPT !.created[ref.at].fx = @ + v]
    ELSE [heap EXCEPT !.cases[ref.case][ref.at].fx = @ + v]

\* target.fy += v
AddToFy(heap, ref, v) ==
    IF ref.case = 0 THEN [heap EXCEPT !.created[ref.at].fy = @ + v]
    ELSE [heap EXCEPT !.cases[ref.case][ref.at].fy = @ + v]

\* NewLoad that enters the load of the load case itself in load_map
NewLoad_alias(heap, load_ref) == [heap |-> heap, ref |-> load_ref]

\* load_map[load.node_id] = Load(node_id=load.node_id, fx=0.0, fy=0.0)
NewLoad(heap, load_ref) ==
    [heap |-> [heap EXCEPT !.created = Append(@, Load(Deref(heap, load_ref).node_id, 0, 0))],
     ref |-> Ref(0, Len(heap.created) + 1)]

\* one pass of the inner loop on the objects; st holds the heap and
\* load_map, the latter as the (node_id, ref) pairs in insertion order
AccumulateLoad(st, load_ref, factor) ==
    LET node_id == Deref(st.heap, load_ref).node_id
        present == \E i \in 1..Len(st.load_map) : st.load_map[i].node_id = node_id
        new == NewLoad(st.heap, load_ref)
        h0 == IF present THEN st.heap ELSE new.heap
        lm == IF present THEN st.load_map
              ELSE Append(st.load_map, [node_id |-> node_id, ref |-> new.ref])
        target == lm[CHOOSE i \in 1..Len(lm) : lm[i].node_id = node_id].ref
        h1 == AddToFx(h0, target, Times(Deref(h0, load_ref).fx, factor))
        h2 == AddToFy(h1, target, Times(Deref(h1, load_ref).fy, factor))
    IN [heap |-> h2, load_map |-> lm]

\* for load in case.loads, from load number j on
RECURSIVE AccumulateCase(_, _, _, _)
AccumulateCase(st, case, j, factor) ==
    IF j > Len(st.heap.cases[case]) THEN st
    ELSE AccumulateCase(AccumulateLoad(st, Ref(case, j), factor), case, j + 1, factor)

\* for case_name, factor in combo.factors.items(): stops at a case name
\* that is not in the load case map
RECURSIVE AccumulateFactors(_, _, _)
AccumulateFactors(st, factors, load_cases) ==
    IF factors = << >> THEN [ok |-> TRUE, st |-> st]
    ELSE LET f == Head(factors)
             named == { i \in 1..Len(load_cases) : load_cases[i].name = f.case_name }
         IN IF named = {} THEN [ok |-> FALSE, st |-> st]
            ELSE AccumulateFactors(AccumulateCase(st, SetMax(named), 1, f.factor),
                                   Tail(factors), load_cases)

\* the fields of the Load objects of the load cases when the call returns
\* or raises
RECURSIVE LoadObjectsAfter(_, _, _, _, _)
LoadObjectsAfter(model, load_cases, cases, combinations, material_name) ==
    IF combinations = << >> THEN cases
    ELSE LET acc == AccumulateFactors([heap |-> Heap(cases, << >>), load_map |-> << >>],
                                      Head(combinations).factors, load_cases)
             combined_loads == [i \in 1..Len(acc.st.load_map) |->
                                   Deref(acc.st.heap, acc.st.load_map[i].ref)]
         IN IF ~acc.ok \/ solve(model, combined_loads, material_name).raised
            THEN acc.st.heap.cases
            ELSE LoadObjectsAfter(model, load_cases, acc.st.heap.cases,
                                  Tail(combinations), material_name)

\* the load cases as the call leaves them
LoadCasesAfter(model, load_cases, combinations, material_name) ==
    LET after == LoadObjectsAfter(model, load_cases,
                                  [c \in 1..Len(load_cases) |-> load_cases[c].loads],
                                  combinations, material_name)
    IN [c \in 1..Len(load_cases) |-> [load_cases[c] EXCEPT !.loads = after[c]]]

(* ------------------------- get_envelope_results ------------------------ *)
\* the member forces of every combination, in the order the loops visit them
RECURSIVE AllMemberForces(_)
AllMemberForces(combination_results) ==
    IF combination_results = << >> THEN << >>
    ELSE Head(combination_results).result.member_forces
         \o AllMemberForces(Tail(combination_results))

\* EnvelopeMember keeping the stress ratio of the combination visited last
RECURSIVE EnvelopeMember_last(_, _, _)
EnvelopeMember_last(member_id, forces, acc) ==
    IF forces = << >> THEN acc
    ELSE LET mf == Head(forces)
         IN EnvelopeMember_last(member_id, Tail(forces),
              IF mf.member_id # member_id THEN acc
              ELSE [member_id |-> member_id,
                    axial |-> PyMax(acc.axial, Abs(mf.axial)),
                    shear |-> PyMax(acc.shear, Abs(mf.shear)),
                    moment |-> PyMax(acc.moment, Abs(mf.moment)),
                    stress |-> PyMax(acc.stress, Abs(mf.stress)),
                    stress_ratio |-> mf.stress_ratio])

\* EnvelopeMember taking the signed axial force
RECURSIVE EnvelopeMember_signed(_, _, _)
EnvelopeMember_signed(member_id, forces, acc) ==
    IF forces = << >> THEN acc
    ELSE LET mf == Head(forces)
         IN EnvelopeMember_signed(member_id, Tail(forces),
              IF mf.member_id # member_id THEN acc
              ELSE [member_id |-> member_id,
                    axial |-> PyMax(acc.axial, mf.axial),
                    shear |-> PyMax(acc.shear, Abs(mf.shear)),
                    moment |-> PyMax(acc.moment, Abs(mf.moment)),
                    stress |-> PyMax(acc.stress, Abs(mf.stress)),
                    stress_ratio |-> PyMax(acc.stress_ratio, mf.stress_ratio)])

\* the running maxima of one member over the visited member forces
RECURSIVE EnvelopeMember(_, _, _)
EnvelopeMember(member_id, forces, acc) ==
    IF forces = << >> THEN acc
    ELSE LET mf == Head(forces)
         IN EnvelopeMember(member_id, Tail(forces),
              IF mf.member_id # member_id THEN acc
              ELSE [member_id |-> member_id,
                    axial |-> PyMax(acc.axial, Abs(mf.axial)),
                    shear |-> PyMax(acc.shear, Abs(mf.shear)),
                    moment |-> PyMax(acc.moment, Abs(mf.moment)),
                    stress |-> PyMax(acc.stress, Abs(mf.stress)),
                    stress_ratio |-> PyMax(acc.stress_ratio, mf.stress_ratio)])

\* MaxByStressRatio that stays with the first item
MaxByStressRatio_first(items, best) == best

\* max(iterable, key=...): the first item with the largest key
RECURSIVE MaxByStressRatio(_, _)
MaxByStressRatio(items, best) ==
    IF items = << >> THEN best
    ELSE MaxByStressRatio(Tail(items),
            IF Head(items).result.max_stress_ratio > best.result.max_stress_ratio
            THEN Head(items) ELSE best)

RECURSIVE MaxOfDeflections(_, _)
MaxOfDeflections(items, best) ==
    IF items = << >> THEN best
    ELSE MaxOfDeflections(Tail(items), PyMax(best, Head(items).result.max_deflection))

RECURSIVE MaxOfRatios(_, _)
MaxOfRatios(items, best) ==
    IF items = << >> THEN best
    ELSE MaxOfRatios(Tail(items), PyMax(best, Head(items).result.max_stress_ratio))

get_envelope_results(combination_results) ==
    LET first_result == combination_results[1].result
        member_ids == [i \in 1..Len(first_result.member_forces) |->
                          first_result.member_forces[i].member_id]
        envelope_member_forces ==
            [i \in 1..Len(member_ids) |->
                EnvelopeMember(member_ids[i], AllMemberForces(combination_results),
                               [member_id |-> member_ids[i], axial |-> 0, shear |-> 0,
                                moment |-> 0, stress |-> 0, stress_ratio |-> 0])]
        max_deflection ==
            MaxOfDeflections(Tail(combination_results), first_result.max_deflection)
        overall_max_stress_ratio ==
            MaxOfRatios(Tail(combination_results), first_result.max_stress_ratio)
        worst_case ==
            MaxByStressRatio(Tail(combination_results), combination_results[1]).result
    IN IF combination_results = << >>
       THEN [raised |-> TRUE,
             error |-> [kind |-> "ValueError", text |-> "No combination results provided",
                        cause |-> NoError.cause],
             value |-> NoResults]
       ELSE [raised |-> FALSE, error |-> NoError,
             value |-> [member_forces |-> envelope_member_forces,
                        reactions |-> worst_case.reactions,
                        max_deflection |-> max_deflection,
                        safety_status |-> EnvelopeSafetyStatus(overall_max_stress_ratio),
                        max_stress_ratio |-> overall_max_stress_ratio,
                        nodes_with_displacements |-> worst_case.nodes_with_displacements]]

(* ----------------------------- code_checks ----------------------------- *)
\* backend/app/services/code_checks.py.  Lengths are in mm, areas in mm2,
\* forces in N and moduli in MPa, all integers.  A quotient of two of them
\* is kept as the fraction it is, so that a comparison with a limit is the
\* comparison the floats make; buckling stresses are in 0.01 MPa.
Q(num, den) == [num |-> num, den |-> den]

\* a <= b for fractions with positive denominators
QLe(a, b) == a.num * b.den <= b.num * a.den

CodeCheckResult(check_name, status, ratio, reference, details) ==
    [code |-> "AISC", check_name |-> check_name, status |-> status, ratio |-> ratio,
     reference |-> reference, details |-> details]

\* check_aisc_slenderness that fails a slenderness equal to the limit
check_aisc_slenderness_strict(length, radius_of_gyration, fy, E, axial_force) ==
    LET K == 1
        slenderness == IF radius_of_gyration > 0 THEN Q(K * length, radius_of_gyration)
                       ELSE Q(0, 1)
        limit == 200
        ratio == Q(slenderness.num, slenderness.den * limit)
        status == IF QLe(Q(limit, 1), slenderness) THEN "FAIL" ELSE "PASS"
    IN CodeCheckResult("Slenderness Ratio", status, ratio, "AISC 360-16 Section E2",
                       [KL_r |-> slenderness, Limit |-> limit])

check_aisc_slenderness(length, radius_of_gyration, fy, E, axial_force) ==
    LET K == 1
        slenderness == IF radius_of_gyration > 0 THEN Q(K * length, radius_of_gyration)
                       ELSE Q(0, 1)
        limit == 200
        ratio == Q(slenderness.num, slenderness.den * limit)
        status == IF QLe(slenderness, Q(limit, 1)) THEN "PASS" ELSE "FAIL"
    IN CodeCheckResult("Slenderness Ratio", status, ratio, "AISC 360-16 Section E2",
                       [KL_r |-> slenderness, Limit |-> limit])

\* math.pi ** 2, in thousandths
PiSquared == 9870

\* base ** n for a whole n; base and the result in 1/10000
RECURSIVE IntPow(_, _)
IntPow(base, n) == IF n = 0 THEN 10000 ELSE (base * IntPow(base, n - 1)) \div 10000

\* root ** (2 * rem / den) for rem < den, one binary digit of the exponent
\* and one square root at a time; root and the result in 1/10000
RECURSIVE FracPow(_, _, _, _)
FracPow(root, rem, den, digits) ==
    IF digits = 0 THEN 10000
    ELSE LET half == Sqrt(root * 10000)
         IN IF 2 * rem >= den
            THEN (half * FracPow(half, 2 * rem - den, den, digits - 1)) \div 10000
            ELSE FracPow(half, 2 * rem, den, digits - 1)

\* base ** (num / den) for num >= 0 and den > 0; base and the result in 1/10000
Pow(base, num, den) ==
    (IntPow(base, num \div den) * FracPow(base, num % den, den, 12)) \div 10000

\* Fe = pi^2 E / (KL/r)^2 with K = 1.0, in 0.01 MPa
EulerStress(E, length, radius_of_gyration) ==
    (((PiSquared * E) \div 1000) * radius_of_gyration * radius_of_gyration)
        \div ((length * length) \div 100)

\* CriticalStress with the elastic formula on both sides of 0.44 fy
CriticalStress_elastic(fy, Fe) == (877 * Fe) \div 1000

\* Fcr from fy (MPa) and Fe (0.01 MPa), in 0.01 MPa
CriticalStress(fy, Fe) ==
    IF Fe >= 44 * fy
    THEN (Pow(6580, fy * 100, Fe) * fy) \div 100
    ELSE (877 * Fe) \div 1000

\* check_aisc_compression_capacity that reports ratio 0 for a capacity Pc <= 0
check_aisc_compression_capacity_zero(area, length, radius_of_gyration, fy, E, axial_force) ==
    LET Fe == IF radius_of_gyration > 0 THEN EulerStress(E, length, radius_of_gyration) ELSE 0
        Fcr == CriticalStress(fy, Fe)
        Pn == Fcr * area
        Pc == (9 * Pn) \div 10
        demand == Abs(axial_force)
        ratio == IF Pc > 0 THEN Q(demand * 100, Pc) ELSE Q(0, 1)
        status == IF QLe(ratio, Q(1, 1)) THEN "PASS" ELSE "FAIL"
    IN IF axial_force >= 0
       THEN CodeCheckResult("Compression Capacity", "PASS", Q(0, 1), "AISC 360-16 Chapter E",
                            [text |-> "Member in tension, compression check not applicable"])
       ELSE CodeCheckResult("Compression Capacity", status, ratio, "AISC 360-16 Chapter E",
                            [Pu |-> demand, phiPn |-> Pc])

check_aisc_compression_capacity(area, length, radius_of_gyration, fy, E, axial_force) ==
    LET Fe == IF radius_of_gyration > 0 THEN EulerStress(E, length, radius_of_gyration) ELSE 0
        Fcr == CriticalStress(fy, Fe)
        Pn == Fcr * area
        Pc == (9 * Pn) \div 10
        demand == Abs(axial_force)
        ratio == IF Pc > 0 THEN Q(demand * 100, Pc) ELSE Q(999, 1)
        status == IF QLe(ratio, Q(1, 1)) THEN "PASS" ELSE "FAIL"
    IN IF axial_force >= 0
       THEN CodeCheckResult("Compression Capacity", "PASS", Q(0, 1), "AISC 360-16 Chapter E",
                            [text |-> "Member in tension, compression check not applicable"])
       ELSE CodeCheckResult("Compression Capacity", status, ratio, "AISC 360-16 Chapter E",
                            [Pu |-> demand, phiPn |-> Pc])

\* check_aisc_tension_capacity that fails a ratio of exactly 1.0
check_aisc_tension_capacity_inclusive(area, fy, fu, axial_force) ==
    LET Pn_yield == fy * area
        Pt == 9 * Pn_yield
        demand == Abs(axial_force)
        ratio == IF Pt > 0 THEN Q(demand * 10, Pt) ELSE Q(999, 1)
        status == IF QLe(Q(1, 1), ratio) THEN "FAIL" ELSE "PASS"
    IN IF axial_force <= 0
       THEN CodeCheckResult("Tension Capacity", "PASS", Q(0, 1), "AISC 360-16 Chapter D",
                            [text |-> "Member in compression, tension check not applicable"])
       ELSE CodeCheckResult("Tension Capacity", status, ratio, "AISC 360-16 Chapter D",
                            [Pu |-> demand, phiPn |-> Pt])

\* Pt = 0.90 fy A is kept in tenths of a newton
check_aisc_tension_capacity(area, fy, fu, axial_force) ==
    LET Pn_yield == fy * area
        Pt == 9 * Pn_yield
        demand == Abs(axial_force)
        ratio == IF Pt > 0 THEN Q(demand * 10, Pt) ELSE Q(999, 1)
        status == IF QLe(ratio, Q(1, 1)) THEN "PASS" ELSE "FAIL"
    IN IF axial_force <= 0
       THEN CodeCheckResult("Tension Capacity", "PASS", Q(0, 1), "AISC 360-16 Chapter D",
                            [text |-> "Member in compression, tension check not applicable"])
       ELSE CodeCheckResult("Tension Capacity", status, ratio, "AISC 360-16 Chapter D",
                            [Pu |-> demand, phiPn |-> Pt])

\* check_aisc_combined_loading that sends an axial ratio of exactly 0.2 to H1-1b
check_aisc_combined_loading_strict(area, section_modulus, axial_force, moment, fy, Pc, Mc) ==
    LET Pu == Abs(axial_force)
        Mu == Abs(moment)
        axial_ratio == (Pu * 9000) \div Pc
        moment_ratio == (Mu * 9000) \div Mc
        ratio == IF 5 * Pu > Pc
                 THEN Q(axial_ratio + (8 * moment_ratio) \div 9, 9000)
                 ELSE Q((Pu * 9000) \div (2 * Pc) + moment_ratio, 9000)
        status == IF QLe(ratio, Q(1, 1)) THEN "PASS" ELSE "FAIL"
    IN IF Pc <= 0 \/ Mc <= 0
       THEN CodeCheckResult("Combined Loading", "FAIL", Q(999, 1), "AISC 360-16 Chapter H",
                            [text |-> "Invalid capacity values"])
       ELSE CodeCheckResult("Combined Loading", status, ratio, "AISC 360-16 Chapter H",
                            [axial_ratio |-> Q(Pu, Pc), moment_ratio |-> Q(Mu, Mc)])

\* Pu / Pc and Mu / Mc are rounded down to 1/9000, the ratio is in 1/9000;
\* the comparison of Pu / Pc with 0.2 is the comparison of 5 Pu with Pc
check_aisc_combined_loading(area, section_modulus, axial_force, moment, fy, Pc, Mc) ==
    LET Pu == Abs(axial_force)
        Mu == Abs(moment)
        axial_ratio == (Pu * 9000) \div Pc
        moment_ratio == (Mu * 9000) \div Mc
        ratio == IF 5 * Pu >= Pc
                 THEN Q(axial_ratio + (8 * moment_ratio) \div 9, 9000)
                 ELSE Q((Pu * 9000) \div (2 * Pc) + moment_ratio, 9000)
        status == IF QLe(ratio, Q(1, 1)) THEN "PASS" ELSE "FAIL"
    IN IF Pc <= 0 \/ Mc <= 0
       THEN CodeCheckResult("Combined Loading", "FAIL", Q(999, 1), "AISC 360-16 Chapter H",
                            [text |-> "Invalid capacity values"])
       ELSE CodeCheckResult("Combined Loading", status, ratio, "AISC 360-16 Chapter H",
                            [axial_ratio |-> Q(Pu, Pc), moment_ratio |-> Q(Mu, Mc)])

\* q * x for a fraction q, rounded down to a whole number
QTimes(q, x) == (q.num * x) \div q.den

\* the moment test of perform_code_checks that takes any moment but zero
MomentExists_any(moment) == Abs(moment) > 0

\* abs(moment) > 1.0
MomentExists(moment) == Abs(moment) > 1

\* the overall status that reports the status of the last check
OverallStatus_last(checks) ==
    IF checks # << >> /\ checks[Len(checks)].status = "FAIL" THEN "FAIL" ELSE "PASS"

\* "FAIL" if any(c.status == "FAIL" for c in checks) else "PASS"
OverallStatus(checks) ==
    IF \E i \in 1..Len(checks) : checks[i].status = "FAIL" THEN "FAIL" ELSE "PASS"

\* a placeholder that fails
NDSPlaceholder_fail ==
    [code |-> "NDS", check_name |-> "NDS Check", status |-> "FAIL", ratio |-> Q(1, 2),
     reference |-> "NDS 2018 (placeholder)",
     details |-> [text |-> "NDS checks not yet implemented"]]

\* the CodeCheckResult appended on the NDS path
NDSPlaceholder ==
    [code |-> "NDS", check_name |-> "NDS Check", status |-> "PASS", ratio |-> Q(1, 2),
     reference |-> "NDS 2018 (placeholder)",
     details |-> [text |-> "NDS checks not yet implemented"]]

MemberCodeCheck(member_id, checks, overall_status) ==
    [raised |-> FALSE, error |-> NoError, member_id |-> member_id, checks |-> checks,
     overall_status |-> overall_status]

\* perform_code_checks; Pc is in N, Mc = 0.90 fy S in N mm
perform_code_checks(member_id, length, area, section_modulus, radius_of_gyration, axial_force, moment, material_name, code) ==
    LET mat == get_material(material_name)
        material == mat.value
        slenderness_check ==
            check_aisc_slenderness(length, radius_of_gyration, material.fy, material.E,
                                   axial_force)
        compression_check ==
            check_aisc_compression_capacity(area, length, radius_of_gyration, material.fy,
                                            material.E, axial_force)
        Pc == IF axial_force < 0
              THEN IF compression_check.ratio.num > 0
                   THEN QTimes(compression_check.ratio, Abs(axial_force))
                   ELSE 1000000000
              ELSE 1000000000
        fu == (15 * material.fy) \div 10
        tension_check == check_aisc_tension_capacity(area, material.fy, fu, axial_force)
        Mc == (9 * material.fy * section_modulus) \div 10
        combined_check ==
            check_aisc_combined_loading(area, section_modulus, axial_force, moment,
                                        material.fy, Pc, Mc)
        checks ==
            IF code = "AISC"
            THEN <<slenderness_check>>
                 \o (IF axial_force < 0 THEN <<compression_check>> ELSE << >>)
                 \o (IF axial_force > 0 THEN <<tension_check>> ELSE << >>)
                 \o (IF MomentExists(moment) THEN <<combined_check>> ELSE << >>)
            ELSE IF code = "NDS" THEN <<NDSPlaceholder>>
            ELSE << >>
    IN IF ~mat.ok
       THEN [raised |-> TRUE, error |-> mat.error, member_id |-> member_id,
             checks |-> << >>, overall_status |-> "none"]
       ELSE MemberCodeCheck(member_id, checks, OverallStatus(checks))

(* ------------------------------ database ------------------------------- *)
\* backend/app/database.py.  The analyses table is the set of its rows;
\* analysis_id is its PRIMARY KEY.  Python's None:
None == [none |-> TRUE]

AnalysisDetail(analysis_id, status, model, results, material, loads, scale_factor, detection_method, error) ==
    [analysis_id |-> analysis_id, status |-> status, model |-> model, results |-> results,
     material |-> material, loads |-> loads, scale_factor |-> scale_factor,
     detection_method |-> detection_method, error |-> error]

\* model_dump_json / json.dumps of a value, and model_validate_json / json.loads
Json(v) == [json |-> v]
ParseJson(text) == text.json

\* the rows of the table with a key
RowsOf(rows, analysis_id) == { r \in rows : r.analysis_id = analysis_id }

\* cursor.fetchone() of a SELECT by key
FetchOne(rows, analysis_id) ==
    IF RowsOf(rows, analysis_id) = {} THEN None
    ELSE CHOOSE r \in RowsOf(rows, analysis_id) : TRUE

\* INSERT that keeps the rows that already have the key
InsertOrReplace_append(rows, row) == rows \cup {row}

\* INSERT OR REPLACE INTO analyses: the row takes the place of the rows with
\* its primary key
InsertOrReplace(rows, row) == (rows \ RowsOf(rows, row.analysis_id)) \cup {row}

\* Database.save_analysis at the time now: the table afterwards
save_analysis(rows, analysis, now) ==
    LET model_json == IF analysis.model # None THEN Json(analysis.model) ELSE None
        results_json == IF analysis.results # None THEN Json(analysis.results) ELSE None
        loads_json == Json(analysis.loads)
        row == FetchOne(rows, analysis.analysis_id)
        created_at == IF row # None THEN row.created_at ELSE now
    IN InsertOrReplace(rows,
                       [analysis_id |-> analysis.analysis_id, status |-> analysis.status,
                        material |-> analysis.material,
                        scale_factor |-> analysis.scale_factor,
                        detection_method |-> analysis.detection_method,
                        model_json |-> model_json, results_json |-> results_json,
                        loads_json |-> loads_json, error |-> analysis.error,
                        created_at |-> created_at, updated_at |-> now])

_row_to_analysis(row) ==
    LET model == IF row.model_json # None THEN ParseJson(row.model_json) ELSE None
        results == IF row.results_json # None THEN ParseJson(row.results_json) ELSE None
        loads == IF row.loads_json # None THEN ParseJson(row.loads_json) ELSE << >>
    IN AnalysisDetail(row.analysis_id, row.status, model, results, row.material, loads,
                      row.scale_factor, row.detection_method, row.error)

\* Database.get_analysis: the AnalysisDetail of the key, or None
get_analysis(rows, analysis_id) ==
    LET row == FetchOne(rows, analysis_id)
    IN IF row = None THEN None ELSE _row_to_analysis(row)

\* Database.delete_analysis: the table afterwards and cursor.rowcount > 0
delete_analysis(rows, analysis_id) ==
    [rows |-> rows \ RowsOf(rows, analysis_id),
     deleted |-> Cardinality(RowsOf(rows, analysis_id)) > 0]

(* ------------------------------- routers ------------------------------- *)
\* backend/app/routers/analysis.py.  A response is the status code, the
\* detail of an HTTPException or the body returned, the table afterwards and
\* the calls the route made.
HTTPException(status_code, detail) == [status_code |-> status_code, detail |-> detail]

\* str(e) of an HTTPException: "<status_code>: <detail>"
StrHTTPException(e) == [status_code |-> e.status_code, cause |-> e.detail]

\* str(e) of a ValueError or a SolverError: its message
StrError(e) ==
    IF "subject" \in DOMAIN e THEN [text |-> e.text, subject |-> e.subject]
    ELSE [text |-> e.text, cause |-> e.cause]

Response(status_code, detail, body, rows, calls) ==
    [status_code |-> status_code, detail |-> detail, body |-> body, rows |-> rows,
     calls |-> calls]

\* except Exception as e: raise HTTPException(500, f"Reanalysis failed: {str(e)}");
\* the HTTPException raised inside the try block is an Exception as well
ReanalysisFailed(str_e) ==
    HTTPException(500, [text |-> "Reanalysis failed", cause |-> str_e])

\* reanalyze_structure(analysis_id, reanalysis_request) at the time now, from
\* original = db.get_analysis(analysis_id) on; the request is a function of
\* those of "material" and "loads" that are not None
reanalyze_structure(rows, original, analysis_id, reanalysis_request, now) ==
    LET material == IF "material" \in DOMAIN reanalysis_request
                       /\ reanalysis_request["material"] # ""
                    THEN reanalysis_request["material"] ELSE original.material
        mat == get_material(material)
        new_loads == IF "loads" \in DOMAIN reanalysis_request
                     THEN reanalysis_request["loads"] ELSE original.loads
        results == solve(original.model, new_loads, material)
        updated_analysis ==
            AnalysisDetail(analysis_id, "completed", original.model, results.value, material,
                           new_loads, original.scale_factor, original.detection_method, None)
    IN IF original = None
       THEN Response(404, [text |-> "Analysis not found"], None, rows, <<"get_analysis">>)
       ELSE IF original.status = "failed" \/ original.model = None
       THEN Response(400, [text |-> "Cannot reanalyze a failed analysis"], None, rows,
                     <<"get_analysis">>)
       ELSE IF ~mat.ok
       THEN LET e == ReanalysisFailed(
                         StrHTTPException(HTTPException(400, StrError(mat.error))))
            IN Response(e.status_code, e.detail, None, rows,
                        <<"get_analysis", "get_material">>)
       ELSE IF results.raised
       THEN LET e == ReanalysisFailed(StrError(results.error))
            IN Response(e.status_code, e.detail, None, rows,
                        <<"get_analysis", "get_material", "solve">>)
       ELSE Response(200, [text |-> ""], updated_analysis,
                     save_analysis(rows, updated_analysis, now),
                     <<"get_analysis", "get_material", "solve", "save_analysis">>)

(* ------------------------------- inputs -------------------------------- *)
StructureTypes == {"truss", "frame"}

\* support lists of a chain of n nodes
SupportLists(kind, n) ==
    IF kind = "truss"
    THEN { << >>,
           <<Support(1, "roller")>>,
           <<Support(1, "pin")>>,
           <<Support(1, "pin"), Support(n, "roller")>>,
           <<Support(1, "pin"), Support(n + 1, "roller")>> }
    ELSE { << >>,
           <<Support(1, "roller")>>,
           <<Support(1, "pin")>>,
           <<Support(1, "fixed")>> }

\* m with one more member, from its last node to a node it does not have
Dangling(m) == [m EXCEPT !.members = Append(@, Member(Len(m.nodes)))]

Models ==
    UNION { { StructuralModel(kind, n, sup) : sup \in SupportLists(kind, n) } :
              kind \in StructureTypes, n \in 2..MaxChain }
    \cup { Dangling(StructuralModel("truss", 2, <<Support(1, "pin")>>)) }

MaterialNames == {"steel", "aluminum", "wood", "Steel", "concrete"}

LoadLists ==
    { << >>,
      <<Load(2, 100000, 0)>>,
      <<Load(2, 125000, 0)>>,
      <<Load(2, 60000, 0), Load(2, 40000, -600)>>,
      <<Load(2, 0, -6000)>>,
      <<Load(2, -20000, 600), Load(1, 5000, 0)>>,
      <<Load(3, -50000, -1200)>>,
      <<Load(2, 40000, 0), Load(MaxChain + 1, 0, 0)>> }

Dead == LoadCase("D", "dead", <<Load(2, 50000, -600)>>)
Live == LoadCase("L", "live", <<Load(2, 50000, 0), Load(2, 0, -3000)>>)
Wind == LoadCase("W", "wind", <<Load(3, -30000, 1200)>>)

LoadCaseLists == { <<Dead, Live, Wind>>, <<Dead, Live>> }

Combinations ==
    { LoadCombination("1.4D", <<Factor("D", 14)>>),
      LoadCombination("1.0D+1.0L", <<Factor("D", 10), Factor("L", 10)>>),
      LoadCombination("1.2D+1.3L", <<Factor("D", 12), Factor("L", 13)>>),
      LoadCombination("0.9D+1.0W", <<Factor("D", 9), Factor("W", 10)>>) }

\* lists of at most MaxCombos combinations with pairwise distinct names
CombinationLists ==
    { cs \in UNION { [1..k -> Combinations] : k \in 0..MaxCombos } :
        \A i, j \in 1..Len(cs) : cs[i].name = cs[j].name => i = j }

(* ------------------------------- state --------------------------------- *)
VARIABLES model, material_name, loads, load_cases, combinations,
          done, solve_out, combos_out, envelope_out,
          check_in, check_out, member_in, member_out, db, api_out, clock, saved

vars == <<model, material_name, loads, load_cases, combinations,
          done, solve_out, combos_out, envelope_out, check_in, check_out,
          member_in, member_out, db, api_out, clock, saved>>

\* the state of the solver calls and the state of the code check calls
solver_vars == <<model, material_name, loads, load_cases, combinations,
                 done, solve_out, combos_out, envelope_out>>
check_vars == <<check_in, check_out>>
\* the state of the perform_code_checks calls, and of the analysis routes
member_vars == <<member_in, member_out>>
\* (db is the analyses table, clock the time of the last save, saved the
\* AnalysisDetail last handed to save_analysis under each id and not deleted)
api_vars == <<db, api_out, clock, saved>>

\* no member has been handed to the code checks
NoMember ==
    [area |-> 0, length |-> 0, radius_of_gyration |-> 0, fy |-> 0, E |-> 0, fu |-> 0,
     axial_force |-> 0]

\* perform_code_checks has not been called; no route has answered
NoChecks ==
    [raised |-> FALSE, error |-> NoError, member_id |-> "", checks |-> << >>,
     overall_status |-> "none"]
NoResponse ==
    [route |-> "none", args |-> [name |-> ""], raised |-> FALSE, status_code |-> 0,
     detail |-> [text |-> ""], body |-> None, calls |-> << >>]

AnalysisIds == {"a1", "a2"}

\* an empty table and no route called
ApiIdle ==
    /\ db = {}
    /\ api_out = NoResponse
    /\ clock = 0
    /\ saved = [id \in AnalysisIds |-> None]

inputs == <<model, material_name, loads, load_cases, combinations>>

NotCalled == [raised |-> FALSE, error |-> NoError, value |-> NoResults]

Init ==
    /\ model \in Models
    /\ material_name \in MaterialNames
    /\ \/ loads \in LoadLists /\ load_cases = << >> /\ combinations = << >>
       \/ loads = << >> /\ load_cases \in LoadCaseLists /\ combinations \in CombinationLists
    /\ done = {}
    /\ solve_out = [raised |-> FALSE, error |-> NoError, value |-> NoResults, stages |-> << >>]
    /\ combos_out = [raised |-> FALSE, error |-> NoError, value |-> << >>, runs |-> << >>]
    /\ envelope_out = NotCalled
    /\ check_in = NoMember
    /\ check_out = << >>
    /\ member_in = NoMember
    /\ member_out = NoChecks
    /\ ApiIdle

\* a caller runs solve on the model, the loads and the material
Solve ==
    /\ solve_out' = solve(model, loads, material_name)
    /\ done' = done \cup {"solve"}
    /\ UNCHANGED <<inputs, combos_out, envelope_out, check_vars, member_vars, api_vars>>

\* a caller runs solve_with_combinations on the load cases and combinations
SolveWithCombinations ==
    /\ combos_out' = solve_with_combinations(model, load_cases, combinations, material_name)
    /\ load_cases' = LoadCasesAfter(model, load_cases, combinations, material_name)
    /\ done' = done \cup {"solve_with_combinations"}
    /\ UNCHANGED <<model, material_name, loads, combinations, solve_out, envelope_out,
                   check_vars, member_vars, api_vars>>

\* a caller passes the returned map of results to get_envelope_results
GetEnvelopeResults ==
    /\ "solve_with_combinations" \in done
    /\ ~combos_out.raised
    /\ envelope_out' = get_envelope_results(combos_out.value)
    /\ done' = done \cup {"get_envelope_results"}
    /\ UNCHANGED <<inputs, solve_out, combos_out, check_vars, member_vars, api_vars>>

Next == Solve \/ SolveWithCombinations \/ GetEnvelopeResults

Spec == Init /\ [][Next]_vars

(* ------------------------ the code check calls ------------------------- *)
\* members handed to the code checks: positive lengths, radii and areas,
\* fy and E of a catalog material, an ultimate strength, an axial force
Lengths == {500, 1000, 2000, 2010, 3000, 5000}
Radii == {10, 15, 20, 30}
Areas == {500, 1000}
UltimateStrengths == {375, 400}
AxialForces == {-150000, -50000, -10000, 0, 10000, 50000, 112500, 150000, 225000}

CheckedMembers ==
    { [area |-> a, length |-> l, radius_of_gyration |-> r,
       fy |-> _MATERIALS[m].fy, E |-> _MATERIALS[m].E, fu |-> fu, axial_force |-> p] :
        a \in Areas, l \in Lengths, r \in Radii, m \in MaterialKeys,
        fu \in UltimateStrengths, p \in AxialForces }

\* no solver call is in progress; a member is given to the checks
CodeInit ==
    /\ model = StructuralModel("truss", 2, <<Support(1, "pin")>>)
    /\ material_name = "steel"
    /\ loads = << >> /\ load_cases = << >> /\ combinations = << >>
    /\ done = {}
    /\ solve_out = [raised |-> FALSE, error |-> NoError, value |-> NoResults, stages |-> << >>]
    /\ combos_out = [raised |-> FALSE, error |-> NoError, value |-> << >>, runs |-> << >>]
    /\ envelope_out = NotCalled
    /\ check_in \in CheckedMembers
    /\ check_out = << >>
    /\ member_in = NoMember
    /\ member_out = NoChecks
    /\ ApiIdle

\* check_out with the result of one more check, under the check's name
Checked(name, result) ==
    [n \in DOMAIN check_out \cup {name} |-> IF n = name THEN result ELSE check_out[n]]

CheckSlenderness ==
    /\ check_out' = Checked("slenderness",
                            check_aisc_slenderness(check_in.length, check_in.radius_of_gyration,
                                                   check_in.fy, check_in.E, check_in.axial_force))
    /\ UNCHANGED <<solver_vars, check_in, member_vars, api_vars>>

CheckCompressionCapacity ==
    /\ check_out' = Checked("compression",
                            check_aisc_compression_capacity(
                                check_in.area, check_in.length, check_in.radius_of_gyration,
                                check_in.fy, check_in.E, check_in.axial_force))
    /\ UNCHANGED <<solver_vars, check_in, member_vars, api_vars>>

CheckTensionCapacity ==
    /\ check_out' = Checked("tension",
                            check_aisc_tension_capacity(check_in.area, check_in.fy, check_in.fu,
                                                        check_in.axial_force))
    /\ UNCHANGED <<solver_vars, check_in, member_vars, api_vars>>

CodeNext == CheckSlenderness \/ CheckCompressionCapacity \/ CheckTensionCapacity

CodeSpec == CodeInit /\ [][CodeNext]_vars

(* ------------------- the checks on degenerate members ------------------ *)
\* members with a zero or negative radius or area, and the capacities and
\* the moment handed to the combined loading check
CapacityMembers ==
    { [area |-> a, length |-> 2000, radius_of_gyration |-> r,
       fy |-> _MATERIALS[m].fy, E |-> _MATERIALS[m].E, fu |-> 400, axial_force |-> p,
       section_modulus |-> 1000, moment |-> mo, Pc |-> pc, Mc |-> mc] :
        a \in {-100, 0, 500}, r \in {-10, 0, 20}, m \in {"steel", "wood"},
        p \in {-100000, -20000, -19999, 0, 20000, 50000},
        mo \in {-90000, 0, 45000, 80000, 90001},
        pc \in {-1000, 0, 100000, 1000000000}, mc \in {-1, 0, 100000} }

CapacityInit ==
    /\ model = StructuralModel("truss", 2, <<Support(1, "pin")>>)
    /\ material_name = "steel"
    /\ loads = << >> /\ load_cases = << >> /\ combinations = << >>
    /\ done = {}
    /\ solve_out = [raised |-> FALSE, error |-> NoError, value |-> NoResults, stages |-> << >>]
    /\ combos_out = [raised |-> FALSE, error |-> NoError, value |-> << >>, runs |-> << >>]
    /\ envelope_out = NotCalled
    /\ check_in \in CapacityMembers
    /\ check_out = << >>
    /\ member_in = NoMember
    /\ member_out = NoChecks
    /\ ApiIdle

CheckCombinedLoading ==
    /\ check_out' = Checked("combined",
                            check_aisc_combined_loading(
                                check_in.area, check_in.section_modulus, check_in.axial_force,
                                check_in.moment, check_in.fy, check_in.Pc, check_in.Mc))
    /\ UNCHANGED <<solver_vars, check_in, member_vars, api_vars>>

CapacityNext ==
    CheckSlenderness \/ CheckCompressionCapacity \/ CheckTensionCapacity
        \/ CheckCombinedLoading

CapacitySpec == CapacityInit /\ [][CapacityNext]_vars

(* -------------------- the perform_code_checks calls -------------------- *)
\* members of a detected structure with the axial force and the moment the
\* solver found in them, a material name and a building code
CheckedCodes == {"AISC", "NDS"}

MemberInputs ==
    { [member_id |-> "M1", length |-> l, area |-> a, section_modulus |-> s,
       radius_of_gyration |-> 10, axial_force |-> p, moment |-> mo,
       material_name |-> m, code |-> c] :
        l \in {1000, 2000, 2010}, a \in {100, 1000}, s \in {400, 1000},
        p \in {-4000, -1000, 0, 1000, 4000}, mo \in {-2, 0, 1, 50000, 200000},
        m \in {"steel", "wood", "Steel", "concrete"}, c \in CheckedCodes }

MemberInit ==
    /\ model = StructuralModel("truss", 2, <<Support(1, "pin")>>)
    /\ material_name = "steel"
    /\ loads = << >> /\ load_cases = << >> /\ combinations = << >>
    /\ done = {}
    /\ solve_out = [raised |-> FALSE, error |-> NoError, value |-> NoResults, stages |-> << >>]
    /\ combos_out = [raised |-> FALSE, error |-> NoError, value |-> << >>, runs |-> << >>]
    /\ envelope_out = NotCalled
    /\ check_in = NoMember
    /\ check_out = << >>
    /\ member_in \in MemberInputs
    /\ member_out = NoChecks
    /\ ApiIdle

PerformCodeChecks ==
    /\ member_out' = perform_code_checks(
                         member_in.member_id, member_in.length, member_in.area,
                         member_in.section_modulus, member_in.radius_of_gyration,
                         member_in.axial_force, member_in.moment, member_in.material_name,
                         member_in.code)
    /\ UNCHANGED <<solver_vars, check_vars, member_in, api_vars>>

MemberNext == PerformCodeChecks

MemberSpec == MemberInit /\ [][MemberNext]_vars

(* ---------------------- the database and the routes -------------------- *)
\* the number of times the analyses table is written
MaxSaves == 3

\* the structure a stored analysis holds, and the loads it was solved under
StoredModel == StructuralModel("truss", 2, <<Support(1, "pin")>>)
StoredLoads == <<Load(2, 100000, 0)>>

\* the AnalysisDetail analyze_structure saves after a successful pipeline
Completed(analysis_id, material) ==
    AnalysisDetail(analysis_id, "completed", StoredModel,
                   solve(StoredModel, StoredLoads, material).value, material, StoredLoads,
                   1, "mock", None)

\* the AnalysisDetail analyze_structure saves after a failed pipeline
Failed(analysis_id, material) ==
    AnalysisDetail(analysis_id, "failed", None, None, material, << >>, 0, "none",
                   [text |-> "No structure detected in image"])

SavedAnalyses(analysis_id) ==
    { Completed(analysis_id, "steel"), Completed(analysis_id, "aluminum"),
      Failed(analysis_id, "steel") }

\* bodies of a reanalysis request: the fields that are not None
ReanalysisRequests ==
    { << >>,
      [material |-> "aluminum"],
      [material |-> "Steel"],
      [material |-> "concrete"],
      [loads |-> <<Load(2, 125000, 0)>>],
      [loads |-> <<Load(5, 1000, 0)>>],
      [material |-> "concrete", loads |-> <<Load(2, 125000, 0)>>] }

RequestedNames == {"steel", "Steel", "STEEL", "ALUMINUM", "aluminum", "Wood", "wood",
                   "concrete", "Concrete", ""}

\* what a call answered: the route or method, its arguments, whether it
\* raised, the status code and detail of an HTTPException, the value
\* returned, and the calls made on the way
Called(route, args, raised, status_code, detail, body, calls) ==
    [route |-> route, args |-> args, raised |-> raised, status_code |-> status_code,
     detail |-> detail, body |-> body, calls |-> calls]

ApiInit ==
    /\ model = StoredModel
    /\ material_name = "steel"
    /\ loads = << >> /\ load_cases = << >> /\ combinations = << >>
    /\ done = {}
    /\ solve_out = [raised |-> FALSE, error |-> NoError, value |-> NoResults, stages |-> << >>]
    /\ combos_out = [raised |-> FALSE, error |-> NoError, value |-> << >>, runs |-> << >>]
    /\ envelope_out = NotCalled
    /\ check_in = NoMember
    /\ check_out = << >>
    /\ member_in = NoMember
    /\ member_out = NoChecks
    /\ ApiIdle

\* Database.save_analysis(analysis)
SaveAnalysis ==
    /\ clock < MaxSaves
    /\ \E id \in AnalysisIds : \E analysis \in SavedAnalyses(id) :
          /\ db' = save_analysis(db, analysis, clock + 1)
          /\ saved' = [saved EXCEPT ![id] = analysis]
          /\ api_out' = Called("save_analysis", [analysis_id |-> id], FALSE, 0, [text |-> ""],
                               None, << >>)
    /\ clock' = clock + 1
    /\ UNCHANGED <<solver_vars, check_vars, member_vars>>

\* Database.get_analysis(analysis_id)
GetAnalysis ==
    /\ \E id \in AnalysisIds :
          api_out' = Called("get_analysis", [analysis_id |-> id], FALSE, 0, [text |-> ""],
                            get_analysis(db, id), << >>)
    /\ UNCHANGED <<solver_vars, check_vars, member_vars, db, clock, saved>>

\* Database.delete_analysis(analysis_id)
DeleteAnalysis ==
    /\ \E id \in AnalysisIds :
          \E out \in {delete_analysis(db, id)} :
             /\ db' = out.rows
             /\ saved' = [saved EXCEPT ![id] = None]
             /\ api_out' = Called("delete_analysis", [analysis_id |-> id], FALSE, 0,
                                  [text |-> ""], [deleted |-> out.deleted], << >>)
    /\ UNCHANGED <<solver_vars, check_vars, member_vars, clock>>

\* POST /analysis/{analysis_id}/reanalyze
ReanalyzeStructure ==
    /\ clock < MaxSaves
    /\ \E id \in AnalysisIds : \E request \in ReanalysisRequests :
          \E original \in {get_analysis(db, id)} :
          \E out \in {reanalyze_structure(db, original, id, request, clock + 1)} :
          LET written == out.status_code = 200
          IN /\ db' = out.rows
             /\ clock' = IF written THEN clock + 1 ELSE clock
             /\ saved' = IF written THEN [saved EXCEPT ![id] = out.body] ELSE saved
             /\ api_out' = Called("reanalyze_structure",
                                  [analysis_id |-> id, request |-> request],
                                  out.status_code # 200, out.status_code, out.detail,
                                  out.body, out.calls)
    /\ UNCHANGED <<solver_vars, check_vars, member_vars>>

\* get_material(name)
GetMaterial ==
    /\ \E name \in RequestedNames :
          \E mat \in {get_material(name)} :
             api_out' = IF mat.ok
                        THEN Called("get_material", [name |-> name], FALSE, 0, [text |-> ""],
                                    mat.value, << >>)
                        ELSE Called("get_material", [name |-> name], TRUE, 0,
                                    StrError(mat.error), None, << >>)
    /\ UNCHANGED <<solver_vars, check_vars, member_vars, db, clock, saved>>

\* list_materials()
ListMaterials ==
    /\ api_out' = Called("list_materials", [name |-> ""], FALSE, 0, [text |-> ""],
                         [materials |-> list_materials], << >>)
    /\ UNCHANGED <<solver_vars, check_vars, member_vars, db, clock, saved>>

ApiNext ==
    SaveAnalysis \/ GetAnalysis \/ DeleteAnalysis \/ ReanalyzeStructure
        \/ GetMaterial \/ ListMaterials

ApiSpec == ApiInit /\ [][ApiNext]_vars

(* ------------------------- what the claims use ------------------------- *)
SolveDone == "solve" \in done
SolveOk == SolveDone /\ ~solve_out.raised
CombosDone == "solve_with_combinations" \in done
CombosOk == CombosDone /\ ~combos_out.raised
EnvelopeOk == "get_envelope_results" \in done /\ ~envelope_out.raised

\* the results the combination map holds
ComboResults == { combos_out.value[i].result : i \in 1..Len(combos_out.value) }

\* every AnalysisResults returned by solve so far
SolveResults == (IF SolveOk THEN {solve_out.value} ELSE {}) \cup ComboResults

\* every AnalysisResults returned so far
ReturnedResults == SolveResults \cup (IF EnvelopeOk THEN {envelope_out.value} ELSE {})

MemberRatios(r) == { r.member_forces[i].stress_ratio : i \in 1..Len(r.member_forces) }

\* the member force of member id in a result
ForceOf(r, id) ==
    r.member_forces[CHOOSE i \in 1..Len(r.member_forces) : r.member_forces[i].member_id = id]

(* C1: in every result of solve and of get_envelope_results the safety      *)
(* status is FAIL iff max_stress_ratio >= 1.0, WARNING iff                  *)
(* 0.8 <= max_stress_ratio < 1.0, and PASS otherwise.                       *)
C1_SafetyStatusThresholds ==
    \A r \in ReturnedResults :
        /\ r.safety_status = "FAIL" <=> r.max_stress_ratio >= 1000
        /\ r.safety_status = "WARNING" <=> (r.max_stress_ratio >= 800 /\ r.max_stress_ratio < 1000)
        /\ r.safety_status = "PASS" <=> r.max_stress_ratio < 800

\* both boundary values and a passing value have been returned
C1_Witness ==
    /\ EnvelopeOk /\ envelope_out.value.safety_status = "FAIL"
    /\ \E r \in ComboResults : r.max_stress_ratio = 800 /\ r.safety_status = "WARNING"
    /\ \E r \in ComboResults : r.max_stress_ratio = 1000 /\ r.safety_status = "FAIL"
    /\ SolveOk /\ solve_out.value.safety_status = "PASS"

(* C2: in every result of solve on a model with at least one member, and    *)
(* in every envelope of the results of solve_with_combinations,             *)
(* max_stress_ratio is the maximum of the stress_ratio values of the        *)
(* member forces of that same result.                                       *)
C2_MaxStressRatioIsMemberMaximum ==
    \A r \in ReturnedResults :
        r.member_forces # << >> => r.max_stress_ratio = SetMax(MemberRatios(r))

\* a result of solve and an envelope whose maximum is not at the last member
C2_Witness ==
    /\ EnvelopeOk /\ Len(envelope_out.value.member_forces) >= 2
    /\ envelope_out.value.member_forces[1].stress_ratio
         > envelope_out.value.member_forces[2].stress_ratio
    /\ envelope_out.value.member_forces[2].stress_ratio > 0
    /\ \E r \in ComboResults :
          r.member_forces[1].stress_ratio > r.member_forces[2].stress_ratio

(* C3: for every member, its stress_ratio in the envelope is the maximum    *)
(* of its stress_ratio over all results in the map.                         *)
C3_EnvelopeStressRatio ==
    EnvelopeOk =>
        \A i \in 1..Len(envelope_out.value.member_forces) :
            LET mf == envelope_out.value.member_forces[i]
            IN mf.stress_ratio
                 = SetMax({ ForceOf(r, mf.member_id).stress_ratio : r \in ComboResults })

\* a member whose largest stress ratio is in the first of two combinations
C3_Witness ==
    /\ EnvelopeOk /\ Len(combos_out.value) >= 2
    /\ \E i \in 1..Len(envelope_out.value.member_forces) :
          LET id == envelope_out.value.member_forces[i].member_id
          IN ForceOf(combos_out.value[1].result, id).stress_ratio
               > ForceOf(combos_out.value[2].result, id).stress_ratio

(* C4: in the envelope every member's axial, shear, moment and stress are   *)
(* each the maximum over all combinations of the absolute value of that     *)
(* quantity, and max_deflection is the maximum of max_deflection over all   *)
(* combinations.                                                            *)
C4_EnvelopeWorstCase ==
    EnvelopeOk =>
        /\ \A i \in 1..Len(envelope_out.value.member_forces) :
              LET mf == envelope_out.value.member_forces[i]
                  each == { ForceOf(r, mf.member_id) : r \in ComboResults }
              IN /\ mf.axial = SetMax({ Abs(f.axial) : f \in each })
                 /\ mf.shear = SetMax({ Abs(f.shear) : f \in each })
                 /\ mf.moment = SetMax({ Abs(f.moment) : f \in each })
                 /\ mf.stress = SetMax({ Abs(f.stress) : f \in each })
        /\ envelope_out.value.max_deflection
             = SetMax({ r.max_deflection : r \in ComboResults })

\* one member takes its axial force from one combination, where it is
\* compressive, and its shear from another
C4_Witness ==
    /\ EnvelopeOk
    /\ \E i \in 1..Len(envelope_out.value.member_forces) :
          LET mf == envelope_out.value.member_forces[i]
          IN \E ra, rs \in ComboResults :
                /\ ForceOf(ra, mf.member_id).axial = 0 - mf.axial
                /\ mf.axial > 0
                /\ Abs(ForceOf(rs, mf.member_id).shear) = mf.shear
                /\ Abs(ForceOf(ra, mf.member_id).shear) < mf.shear

(* C5: the reactions and the nodal displacements of the envelope are both   *)
(* those of one single combination, and that combination has the highest    *)
(* max_stress_ratio of the map, which is the envelope's max_stress_ratio.   *)
C5_EnvelopeGoverningCombination ==
    EnvelopeOk =>
        \E r \in ComboResults :
            /\ envelope_out.value.reactions = r.reactions
            /\ envelope_out.value.nodes_with_displacements = r.nodes_with_displacements
            /\ \A q \in ComboResults : q.max_stress_ratio <= r.max_stress_ratio
            /\ envelope_out.value.max_stress_ratio = r.max_stress_ratio

\* the governing combination is the second one, and its reactions differ
C5_Witness ==
    /\ EnvelopeOk /\ Len(combos_out.value) >= 2
    /\ combos_out.value[2].result.max_stress_ratio > combos_out.value[1].result.max_stress_ratio
    /\ combos_out.value[2].result.reactions # combos_out.value[1].result.reactions
    /\ envelope_out.value.reactions = combos_out.value[2].result.reactions

\* a model whose supports cannot hold it: nothing restrains the horizontal
\* translation, or a frame stands on one support that is not fixed
UnderConstrained(m) ==
    \/ \A i \in 1..Len(m.supports) : m.supports[i].type = "roller"
    \/ /\ m.structure_type = "frame"
       /\ Cardinality({ m.supports[i].node_id : i \in 1..Len(m.supports) }) <= 1
       /\ \A i \in 1..Len(m.supports) : m.supports[i].type # "fixed"

\* the load cases a combination names that are not among the given ones
MissingCases(combo) ==
    { combo.factors[i].case_name : i \in 1..Len(combo.factors) }
    \ { load_cases[i].name : i \in 1..Len(load_cases) }

HasMissingCase == \E i \in 1..Len(combinations) : MissingCases(combinations[i]) # {}

\* the first combination of the list that names a missing load case
FirstOffending == SetMin({ i \in 1..Len(combinations) : MissingCases(combinations[i]) # {} })

\* every solver run of the batch came back with results
AllRunsSolved ==
    \A k \in 1..Len(combos_out.runs) :
        combos_out.runs[k].stages[Len(combos_out.runs[k].stages)] = "extract"

(* C6 (as claimed), on the models that are not under-constrained: if a      *)
(* combination has a factor for a load case name that is not among the      *)
(* given load cases, solve_with_combinations fails with an error that       *)
(* names the missing case, and no result map is returned, not even the      *)
(* entries of earlier valid combinations.                                   *)
C6_MissingLoadCaseNamed ==
    (CombosDone /\ HasMissingCase /\ ~UnderConstrained(model)) =>
        /\ combos_out.raised
        /\ combos_out.value = << >>
        /\ combos_out.error.text = "Load case not found"
        /\ \E i \in 1..Len(combinations) :
              combos_out.error.cause.subject \in MissingCases(combinations[i])

(* C6 (amended): if a combination has a factor for a load case name that    *)
(* is not among the given load cases, solve_with_combinations fails and     *)
(* returns no result map, not even the entries of earlier valid             *)
(* combinations; the error names the missing case when every combination    *)
(* before the first offending one was solved, and is the SolverError of     *)
(* the earlier combination whose solver run failed otherwise.               *)
C6_MissingLoadCaseFails ==
    (CombosDone /\ HasMissingCase) =>
        /\ combos_out.raised
        /\ combos_out.value = << >>
        /\ IF AllRunsSolved
           THEN /\ Len(combos_out.runs) = FirstOffending - 1
                /\ combos_out.error.text = "Load case not found"
                /\ combos_out.error.cause.subject \in MissingCases(combinations[FirstOffending])
           ELSE /\ Len(combos_out.runs) < FirstOffending
                /\ combos_out.error.text = "FEA analysis failed"

\* the offending combination comes second: the first one was solved, and
\* its entry is not returned
C6_Witness ==
    /\ CombosDone /\ HasMissingCase /\ combos_out.raised
    /\ Len(combos_out.runs) = 1 /\ AllRunsSolved
    /\ combos_out.error.cause.subject = "W"
    /\ combos_out.value = << >>

CaseNamed(name) == CHOOSE lc \in SeqRange(load_cases) : lc.name = name
ComboNamed(name) == CHOOSE c \in SeqRange(combinations) : c.name = name

\* the sum, over the factors of a combination and the loads of the case
\* each names, of factor times the component of the loads at a node
FactoredSum(combo, node, dir) ==
    LET perCase == [i \in 1..Len(combo.factors) |->
                      LET f == combo.factors[i]
                          ls == CaseNamed(f.case_name).loads
                          perLoad == [j \in 1..Len(ls) |->
                                        IF ls[j].node_id # node THEN 0
                                        ELSE Times(IF dir = "FX" THEN ls[j].fx ELSE ls[j].fy,
                                                   f.factor)]
                      IN SumOver(perLoad, 1..Len(ls))]
    IN SumOver(perCase, 1..Len(combo.factors))

\* the nodes loaded by the cases a combination names
LoadedNodes(combo) ==
    UNION { { CaseNamed(combo.factors[i].case_name).loads[j].node_id :
                j \in 1..Len(CaseNamed(combo.factors[i].case_name).loads) } :
            i \in 1..Len(combo.factors) }

(* C7: the load list handed to the solver for a combination has at most     *)
(* one Load per node id, and its fx and fy are the sums, over every load    *)
(* case the combination names and every Load of that case at the node, of   *)
(* factor times fx and fy.                                                  *)
C7_CombinedLoadsAreFactoredSums ==
    \A k \in 1..Len(combos_out.runs) :
        LET run == combos_out.runs[k]
            combo == ComboNamed(run.combo)
        IN /\ \A a, b \in 1..Len(run.loads) :
                 run.loads[a].node_id = run.loads[b].node_id => a = b
           /\ { run.loads[a].node_id : a \in 1..Len(run.loads) } = LoadedNodes(combo)
           /\ \A a \in 1..Len(run.loads) :
                 /\ run.loads[a].fx = FactoredSum(combo, run.loads[a].node_id, "FX")
                 /\ run.loads[a].fy = FactoredSum(combo, run.loads[a].node_id, "FY")

\* a node loaded by two cases, one of them with two loads at the node
C7_Witness ==
    \E k \in 1..Len(combos_out.runs) :
        /\ combos_out.runs[k].combo = "1.2D+1.3L"
        /\ combos_out.runs[k].loads = <<Load(2, 125000, -4620)>>

WellFormed == ReferencedNodes(model, loads) \subseteq NodeIds(model)

C10_UnknownMaterialIsConfigurationError ==
    (SolveDone /\ Lower(material_name) \notin MaterialKeys) =>
        /\ solve_out.raised
        /\ solve_out.stages = <<"get_material">>
        /\ solve_out.value = NoResults
        /\ solve_out.error.kind = "ValueError"

\* every node id a member, a support or a load of the call refers to
AllReferencedNodes ==
    { model.members[i].start_node : i \in 1..Len(model.members) }
    \cup { model.members[i].end_node : i \in 1..Len(model.members) }
    \cup { model.supports[i].node_id : i \in 1..Len(model.supports) }
    \cup { loads[i].node_id : i \in 1..Len(loads) }

(* C11 (as claimed), on the models that are not under-constrained: when a   *)
(* member, a support or a load refers to a node id that is not among the    *)
(* model's nodes, solve reports an error, the analysis step is never run    *)
(* and no AnalysisResults is returned.                                      *)
C11_MissingNodeReferenceFails ==
    (SolveDone /\ ~UnderConstrained(model) /\ ~(AllReferencedNodes \subseteq NodeIds(model))) =>
        /\ solve_out.raised
        /\ "analyze" \notin SeqRange(solve_out.stages)
        /\ solve_out.value = NoResults

\* the reactions hold the applied loads: the components sum to zero
Balanced(reactions, applied) ==
    /\ SumOver([i \in 1..Len(reactions) |-> reactions[i].rx], 1..Len(reactions))
         + SumOver([i \in 1..Len(applied) |-> applied[i].fx], 1..Len(applied)) = 0
    /\ SumOver([i \in 1..Len(reactions) |-> reactions[i].ry], 1..Len(reactions))
         + SumOver([i \in 1..Len(applied) |-> applied[i].fy], 1..Len(applied)) = 0

\* the solver run of the batch that produced entry k of the result map
RunOf(k) ==
    combos_out.runs[CHOOSE j \in 1..Len(combos_out.runs) :
                        combos_out.runs[j].combo = combos_out.value[k].name]

(* C12: for every solved model the reported reactions, one per support      *)
(* record, balance the applied loads: their vertical components sum to the  *)
(* magnitude of the applied vertical load and oppose it, and likewise the   *)
(* horizontal components.                                                   *)
C12_Equilibrium ==
    /\ SolveOk => Balanced(solve_out.value.reactions, loads)
    /\ CombosOk => \A k \in 1..Len(combos_out.value) :
                      Balanced(combos_out.value[k].result.reactions, RunOf(k).loads)

\* two supports share a load that has both components, applied at two nodes
C12_Witness ==
    /\ SolveOk /\ Len(loads) = 2 /\ Len(solve_out.value.reactions) = 2
    /\ \A i \in 1..2 : solve_out.value.reactions[i].ry # 0
    /\ solve_out.value.reactions[1].rx # 0
    /\ solve_out.value.reactions[1].rx # solve_out.value.reactions[1].ry

\* the loads with every component multiplied by k (in tenths)
ScaledLoads(k) ==
    [i \in 1..Len(loads) |-> Load(loads[i].node_id, Times(loads[i].fx, k), Times(loads[i].fy, k))]

\* the load factors the scaling is checked with: 2.0 and 1.4
ScaleFactors == {20, 14}

\* v2 is k times v1
ScaledBy(k, v1, v2) == 10 * v2 = k * v1

\* v2 is k times v1 up to the rounding of the last digit of each
ScaledByRounded(k, v1, v2) == 10 * v2 - k * v1 > 0 - 10 /\ 10 * v2 - k * v1 < k

(* C13: for a fixed model and material, multiplying every applied load by   *)
(* a factor k multiplies every member force and every reaction solve        *)
(* reports by k, and every stress ratio by k up to rounding.                *)
C13_LinearScaling ==
    SolveOk =>
        \A k \in ScaleFactors :
            LET r1 == solve_out.value
                s2 == solve(model, ScaledLoads(k), material_name)
                r2 == s2.value
            IN /\ ~s2.raised
               /\ \A i \in 1..Len(r1.member_forces) :
                     /\ ScaledBy(k, r1.member_forces[i].axial, r2.member_forces[i].axial)
                     /\ ScaledBy(k, r1.member_forces[i].shear, r2.member_forces[i].shear)
                     /\ ScaledBy(k, r1.member_forces[i].moment, r2.member_forces[i].moment)
                     /\ ScaledByRounded(k, r1.member_forces[i].stress_ratio,
                                            r2.member_forces[i].stress_ratio)
               /\ \A i \in 1..Len(r1.reactions) :
                     /\ ScaledBy(k, r1.reactions[i].rx, r2.reactions[i].rx)
                     /\ ScaledBy(k, r1.reactions[i].ry, r2.reactions[i].ry)
               /\ ScaledByRounded(k, r1.max_stress_ratio, r2.max_stress_ratio)

\* a frame member carrying an axial force and a moment, passing under the
\* loads and no longer passing under twice the loads
C13_Witness ==
    /\ SolveOk /\ model.structure_type = "frame"
    /\ solve_out.value.member_forces[1].axial # 0
    /\ solve_out.value.member_forces[1].moment # 0
    /\ solve_out.value.reactions[1].ry # 0
    /\ solve_out.value.safety_status = "PASS"
    /\ solve(model, ScaledLoads(20), material_name).value.safety_status # "PASS"

\* the result the map returned by a call holds under a combination name
ResultNamed(out, name) ==
    out.value[CHOOSE i \in 1..Len(out.value) : out.value[i].name = name].result

\* the combinations in the opposite order
Reversed(cs) == [i \in 1..Len(cs) |-> cs[Len(cs) + 1 - i]]

(* C14: the result solve_with_combinations returns for a combination is     *)
(* the result it returns when that combination is evaluated alone, and the  *)
(* result it returns when the batch is evaluated in the opposite order: it  *)
(* depends on the model, the material, the combination's factors and the    *)
(* load cases only.                                                         *)
C14_CombinationsIndependent ==
    CombosOk =>
        LET rev == solve_with_combinations(model, load_cases, Reversed(combinations),
                                           material_name)
        IN /\ ~rev.raised
           /\ \A i \in 1..Len(combinations) :
                 LET name == combinations[i].name
                     alone == solve_with_combinations(model, load_cases, <<combinations[i]>>,
                                                      material_name)
                 IN /\ ~alone.raised
                    /\ ResultNamed(combos_out, name) = ResultNamed(alone, name)
                    /\ ResultNamed(combos_out, name) = ResultNamed(rev, name)

\* a batch of two combinations that load the same node and give different
\* results
C14_Witness ==
    /\ CombosOk /\ Len(combos_out.value) = 2
    /\ combos_out.value[1].result.member_forces # combos_out.value[2].result.member_forces
    /\ \E nd \in NodeIds(model) :
          \A k \in 1..2 : \E j \in 1..Len(combos_out.runs[k].loads) :
              combos_out.runs[k].loads[j].node_id = nd

(* C15: solve, solve_with_combinations and get_envelope_results leave       *)
(* their inputs as they were: the model, the loads, the load cases with     *)
(* their unfactored fx and fy, the combinations and the material name are   *)
(* the same after every call, and so are the results returned before it.    *)
C15_InputsUnchanged ==
    [][ /\ inputs' = inputs
        /\ SolveDone => solve_out' = solve_out
        /\ CombosDone => combos_out' = combos_out
        /\ "get_envelope_results" \in done => envelope_out' = envelope_out ]_vars

\* a combination has added two factored loads of one case into one created
\* record, the envelope has been taken, and the case still holds its loads
C15_Witness ==
    /\ EnvelopeOk /\ SolveOk
    /\ \E k \in 1..Len(combos_out.runs) :
          /\ Len(combos_out.runs[k].loads) = 1
          /\ \E c \in 1..Len(load_cases) :
                /\ Len(load_cases[c].loads) = 2
                /\ \A j \in 1..2 :
                      /\ load_cases[c].loads[j].node_id = combos_out.runs[k].loads[1].node_id
                      /\ load_cases[c].loads[j] # combos_out.runs[k].loads[1]
    /\ load_cases \in LoadCaseLists

\* the kinds of the support records at a node of the model
SupportKindsAt(node_id) ==
    { model.supports[i].type :
        i \in { j \in 1..Len(model.supports) : model.supports[j].node_id = node_id } }

(* C16: solve restrains a pin node in both translations, a roller node in   *)
(* the vertical translation only, and a fixed node in both translations     *)
(* and the in-plane rotation; in a truss the in-plane rotation is           *)
(* restrained at every node, in a frame it is free at every node without a  *)
(* fixed support.                                                           *)
C16_SupportRestraints ==
    SolveDone =>
        \A i \in 1..Len(model.nodes) :
            LET r == Restraints(model)[i]
                kinds == SupportKindsAt(model.nodes[i].id)
            IN /\ kinds = {"pin"} => (r.DX /\ r.DY)
               /\ kinds = {"roller"} => (~r.DX /\ r.DY)
               /\ kinds = {"fixed"} => (r.DX /\ r.DY /\ r.RZ)
               /\ model.structure_type = "truss" => r.RZ
               /\ (model.structure_type = "frame" /\ "fixed" \notin kinds) => ~r.RZ

\* a solved truss on a pin and a roller: the roller node has moved
\* horizontally and not vertically
C16_Witness ==
    /\ SolveOk /\ model.structure_type = "truss"
    /\ \E i, j \in 1..Len(model.nodes) :
          /\ SupportKindsAt(i) = {"pin"} /\ SupportKindsAt(j) = {"roller"}
          /\ solve_out.value.nodes_with_displacements[i].displacement_x = 0
          /\ solve_out.value.nodes_with_displacements[j].displacement_x # 0
          /\ solve_out.value.nodes_with_displacements[j].displacement_y = 0

(* C17: every MemberForce solve produces has stress = |axial|/A for a       *)
(* truss (A = 500) and stress = |axial|/A + |moment|*(depth/2)/I for a      *)
(* frame (A = 1000, I = 50000, depth = 30), and stress_ratio = stress/fy    *)
(* of the requested material; neither is negative.                          *)
C17_StressFormula ==
    \A r \in SolveResults :
        \A i \in 1..Len(r.member_forces) :
            LET mf == r.member_forces[i]
                fy == _MATERIALS[Lower(material_name)].fy
            IN /\ model.structure_type = "truss" =>
                      mf.stress = (Abs(mf.axial) * 100) \div 500
               /\ model.structure_type = "frame" =>
                      mf.stress = (Abs(mf.axial) * 100) \div 1000
                                  + (Abs(mf.moment) * 15 * 100) \div 50000
               /\ mf.stress_ratio = (mf.stress * 10) \div fy
               /\ mf.stress >= 0 /\ mf.stress_ratio >= 0

\* a frame member under axial force and moment has been solved, and so has
\* a member in compression
C17_Witness ==
    /\ SolveOk /\ model.structure_type = "frame"
    /\ \E i \in 1..Len(solve_out.value.member_forces) :
          LET mf == solve_out.value.member_forces[i]
          IN /\ mf.axial # 0 /\ mf.moment # 0
             /\ mf.stress > (Abs(mf.axial) * 100) \div 1000
             /\ mf.stress_ratio > 0
    /\ \E i \in 1..Len(solve_out.value.member_forces) :
          solve_out.value.member_forces[i].axial < 0

\* a check has been run on the member
CheckDone(name) == name \in DOMAIN check_out

(* C18: check_aisc_slenderness returns ratio = (L/r)/200 and FAIL iff        *)
(* L/r > 200, a slenderness of exactly 200 passing, for every length and    *)
(* positive radius of gyration, whatever fy, E and the axial force are.     *)
C18_Slenderness ==
    (CheckDone("slenderness") /\ check_in.radius_of_gyration > 0) =>
        LET out == check_out["slenderness"]
            L == check_in.length
            r == check_in.radius_of_gyration
        IN /\ out.ratio.num * (r * 200) = L * out.ratio.den
           /\ out.status = "FAIL" <=> L > 200 * r
           /\ out.status = "PASS" <=> L <= 200 * r

\* a member of slenderness exactly 200 has been checked and has passed
C18_Witness ==
    /\ CheckDone("slenderness")
    /\ check_in.length = 200 * check_in.radius_of_gyration
    /\ check_out["slenderness"].status = "PASS"
    /\ check_out["slenderness"].ratio.num = check_out["slenderness"].ratio.den

(* C19: for a compressive axial force check_aisc_compression_capacity uses  *)
(* Fcr = 0.658^(fy/Fe) fy when Fe >= 0.44 fy and Fcr = 0.877 Fe otherwise,  *)
(* reports ratio = |axial| / (0.90 Fcr A) and FAIL iff that ratio exceeds   *)
(* 1.0; for a tensile or zero axial force it reports PASS with ratio 0.     *)
C19_CompressionCapacity ==
    CheckDone("compression") =>
        LET out == check_out["compression"]
            fy == check_in.fy
            Fe == EulerStress(check_in.E, check_in.length, check_in.radius_of_gyration)
            Fcr == IF 100 * Fe >= 44 * (100 * fy)
                   THEN (Pow(6580, 100 * fy, Fe) * fy) \div 100
                   ELSE (877 * Fe) \div 1000
            capacity == (9 * Fcr * check_in.area) \div 10
            demand == 100 * Abs(check_in.axial_force)
        IN /\ check_in.axial_force >= 0 => (out.status = "PASS" /\ out.ratio.num = 0)
           /\ check_in.axial_force < 0 =>
                 /\ out.ratio = Q(demand, capacity)
                 /\ out.status = "FAIL" <=> demand > capacity
                 /\ out.status = "PASS" <=> demand <= capacity

\* a member in the inelastic range has been checked under a compression
\* beyond its capacity
C19_Witness ==
    /\ CheckDone("compression") /\ check_in.axial_force < 0
    /\ EulerStress(check_in.E, check_in.length, check_in.radius_of_gyration)
          >= 44 * check_in.fy
    /\ check_out["compression"].status = "FAIL"
    /\ check_out["compression"].ratio.num > check_out["compression"].ratio.den

(* C20: for a tensile axial force check_aisc_tension_capacity reports       *)
(* ratio = axial / (0.90 fy A) and FAIL iff that ratio exceeds 1.0, a       *)
(* ratio of exactly 1.0 passing, whatever fu is; for a compressive or zero  *)
(* axial force it reports PASS with ratio 0.                                *)
C20_TensionCapacity ==
    CheckDone("tension") =>
        LET out == check_out["tension"]
            capacity == 9 * check_in.fy * check_in.area
            demand == 10 * check_in.axial_force
        IN /\ check_in.axial_force <= 0 => (out.status = "PASS" /\ out.ratio.num = 0)
           /\ check_in.axial_force > 0 =>
                 /\ out.ratio = Q(demand, capacity)
                 /\ out.status = "FAIL" <=> demand > capacity
                 /\ out.status = "PASS" <=> demand <= capacity

\* a member under a tension equal to its design capacity has been checked
\* and has passed
C20_Witness ==
    /\ CheckDone("tension") /\ check_in.axial_force > 0
    /\ 10 * check_in.axial_force = 9 * check_in.fy * check_in.area
    /\ check_out["tension"].status = "PASS"

\* C21: for positive Pc and Mc the combined loading check computes the axial
\* ratio |axial| / Pc and reports axial_ratio + (8/9) |moment| / Mc when the
\* axial ratio is at least 0.2 (0.2 included) and axial_ratio / 2 + |moment| / Mc
\* otherwise; the status is FAIL exactly when that ratio exceeds 1.0.
C21_CombinedLoading ==
    (CheckDone("combined") /\ check_in.Pc > 0 /\ check_in.Mc > 0) =>
        LET out == check_out["combined"]
            Pu == Abs(check_in.axial_force)
            Mu == Abs(check_in.moment)
            axial_ratio == (Pu * 9000) \div check_in.Pc
            moment_ratio == (Mu * 9000) \div check_in.Mc
            interaction == IF 5 * Pu >= check_in.Pc
                           THEN axial_ratio + (8 * moment_ratio) \div 9
                           ELSE axial_ratio \div 2 + moment_ratio
        IN /\ out.details.axial_ratio = Q(Pu, check_in.Pc)
           /\ out.ratio = Q(interaction, 9000)
           /\ (out.status = "FAIL") <=> (interaction > 9000)
           /\ out.status \in {"PASS", "FAIL"}

\* an axial ratio of exactly 0.2 with a moment ratio of 0.45: H1-1a gives 0.6
C21_Witness ==
    /\ CheckDone("combined") /\ check_in.Pc > 0 /\ check_in.Mc > 0
    /\ 5 * Abs(check_in.axial_force) = check_in.Pc
    /\ check_in.moment = 45000 /\ check_in.Mc = 100000
    /\ check_out["combined"].ratio = Q(5400, 9000)
    /\ check_out["combined"].status = "PASS"

MemberDone == member_out # NoChecks
MemberOk == MemberDone /\ ~member_out.raised

\* the names of the checks perform_code_checks returned, in their order
CheckNames == [i \in 1..Len(member_out.checks) |-> member_out.checks[i].check_name]

\* the returned check of a name
CheckNamed(name) ==
    member_out.checks[CHOOSE i \in 1..Len(member_out.checks) :
                          member_out.checks[i].check_name = name]

\* C22: with the AISC code perform_code_checks always runs the slenderness
\* check, the compression check exactly when the axial force is negative, the
\* tension check exactly when it is positive and the combined loading check
\* exactly when |moment| > 1.0; never both a compression and a tension check,
\* and only the slenderness check for zero axial force and zero moment.
C22_ChecksRun ==
    (MemberOk /\ member_in.code = "AISC") =>
        LET names == SeqRange(CheckNames)
        IN /\ "Slenderness Ratio" \in names
           /\ ("Compression Capacity" \in names) <=> (member_in.axial_force < 0)
           /\ ("Tension Capacity" \in names) <=> (member_in.axial_force > 0)
           /\ ("Combined Loading" \in names) <=> (Abs(member_in.moment) > 1)
           /\ ~({"Compression Capacity", "Tension Capacity"} \subseteq names)
           /\ names \subseteq {"Slenderness Ratio", "Compression Capacity",
                                "Tension Capacity", "Combined Loading"}
           /\ Cardinality(names) = Len(CheckNames)
           /\ (member_in.axial_force = 0 /\ member_in.moment = 0)
                  => CheckNames = <<"Slenderness Ratio">>

\* a compression member with a moment of exactly 1.0 N mm: no combined check
C22_Witness ==
    /\ MemberOk /\ member_in.code = "AISC"
    /\ member_in.axial_force < 0 /\ member_in.moment = 1
    /\ CheckNames = <<"Slenderness Ratio", "Compression Capacity">>

\* C23: when perform_code_checks runs the combined loading check of a
\* compression member, the Pc it supplies is the design capacity 0.90 Fcr A of
\* the compression check (to the newton), so the axial ratio of the interaction
\* equation is the ratio the compression check reports.
C23_CombinedUsesDesignCapacity ==
    (MemberOk /\ member_in.code = "AISC" /\ member_in.axial_force < 0
        /\ Abs(member_in.moment) > 1) =>
        LET compression == CheckNamed("Compression Capacity")
            combined == CheckNamed("Combined Loading")
            supplied == combined.details.axial_ratio.den
            capacity == compression.ratio.den \div 100
        IN /\ combined.details.axial_ratio.num = Abs(member_in.axial_force)
           /\ Abs(supplied - capacity) <= 1

\* C24: the overall status is FAIL exactly when one of the returned checks
\* has status FAIL, and PASS otherwise.
C24_OverallStatus ==
    MemberOk =>
        /\ member_out.overall_status \in {"PASS", "FAIL"}
        /\ (member_out.overall_status = "FAIL")
              <=> (\E i \in 1..Len(member_out.checks) : member_out.checks[i].status = "FAIL")

\* a failing check followed by a passing one
C24_Witness ==
    /\ MemberOk /\ Len(member_out.checks) >= 2
    /\ member_out.checks[1].status = "FAIL"
    /\ member_out.checks[Len(member_out.checks)].status = "PASS"
    /\ member_out.overall_status = "FAIL"

\* C25: with the NDS code perform_code_checks returns, whatever the member
\* and its forces, one placeholder check with status PASS and ratio 0.5 and
\* the overall status PASS; no AISC check is run.
C25_NDSPlaceholder ==
    (MemberOk /\ member_in.code = "NDS") =>
        /\ Len(member_out.checks) = 1
        /\ member_out.checks[1].code = "NDS"
        /\ member_out.checks[1].status = "PASS"
        /\ member_out.checks[1].ratio = Q(1, 2)
        /\ member_out.overall_status = "PASS"

\* a member that fails the AISC checks passes on the NDS path
C25_Witness ==
    /\ MemberOk /\ member_in.code = "NDS"
    /\ member_in.length = 2010 /\ member_in.axial_force = -4000
    /\ member_in.area = 100 /\ member_in.moment = 200000
    /\ member_out.overall_status = "PASS"

\* C29: no capacity check divides by a capacity that is not positive.  Where
\* the design capacity is evaluated and is <= 0 (compression with a radius of
\* gyration or an area <= 0, tension with an area <= 0, combined loading with
\* Pc <= 0 or Mc <= 0) the check reports ratio 999 and FAIL; the slenderness
\* check with a radius of gyration <= 0 reports slenderness 0 and PASS.
C29_NonPositiveCapacity ==
    /\ \A name \in DOMAIN check_out : check_out[name].ratio.den > 0
    /\ (CheckDone("compression") /\ check_in.axial_force < 0
           /\ (check_in.radius_of_gyration <= 0 \/ check_in.area <= 0)) =>
          /\ check_out["compression"].details.phiPn <= 0
          /\ check_out["compression"].ratio = Q(999, 1)
          /\ check_out["compression"].status = "FAIL"
    /\ (CheckDone("compression") /\ check_in.axial_force < 0
           /\ check_out["compression"].details.phiPn <= 0) =>
          /\ check_out["compression"].ratio = Q(999, 1)
          /\ check_out["compression"].status = "FAIL"
    /\ (CheckDone("tension") /\ check_in.axial_force > 0 /\ check_in.area <= 0) =>
          /\ check_out["tension"].details.phiPn <= 0
          /\ check_out["tension"].ratio = Q(999, 1)
          /\ check_out["tension"].status = "FAIL"
    /\ (CheckDone("combined") /\ (check_in.Pc <= 0 \/ check_in.Mc <= 0)) =>
          /\ check_out["combined"].ratio = Q(999, 1)
          /\ check_out["combined"].status = "FAIL"
    /\ (CheckDone("slenderness") /\ check_in.radius_of_gyration <= 0) =>
          /\ check_out["slenderness"].details.KL_r = Q(0, 1)
          /\ check_out["slenderness"].ratio.num = 0
          /\ check_out["slenderness"].status = "PASS"

\* a compression member with no radius of gyration and a negative area,
\* handed to the combined check with a zero Mc
C29_Witness ==
    /\ CheckDone("compression") /\ CheckDone("combined") /\ CheckDone("slenderness")
    /\ check_in.axial_force < 0 /\ check_in.radius_of_gyration = 0 /\ check_in.area < 0
    /\ check_in.Pc > 0 /\ check_in.Mc = 0
    /\ check_out["compression"].status = "FAIL"
    /\ check_out["combined"].status = "FAIL"
    /\ check_out["slenderness"].status = "PASS"

\* each node of the model has at most one support record
OneSupportPerNode ==
    \A i, j \in 1..Len(model.supports) :
        model.supports[i].node_id = model.supports[j].node_id => i = j

\* C27: a successful solve returns one MemberForce per member of the model,
\* in the model's order and with the member's id, one Reaction per support
\* record in the order of the supports, and one displaced node per node of the
\* model with its id and coordinates; reaction node ids are then unique when
\* each node has at most one support record.
C27_ResultShape ==
    \A r \in SolveResults :
        /\ Len(r.member_forces) = Len(model.members)
        /\ \A i \in 1..Len(model.members) : r.member_forces[i].member_id = model.members[i].id
        /\ Len(r.reactions) = Len(model.supports)
        /\ \A i \in 1..Len(model.supports) : r.reactions[i].node_id = model.supports[i].node_id
        /\ Len(r.nodes_with_displacements) = Len(model.nodes)
        /\ \A i \in 1..Len(model.nodes) :
              /\ r.nodes_with_displacements[i].id = model.nodes[i].id
              /\ r.nodes_with_displacements[i].x = model.nodes[i].x
              /\ r.nodes_with_displacements[i].y = model.nodes[i].y
        /\ OneSupportPerNode =>
              \A i, j \in 1..Len(r.reactions) :
                  r.reactions[i].node_id = r.reactions[j].node_id => i = j

\* a solved chain of two members with a pin and a roller, displaced
C27_Witness ==
    /\ SolveOk /\ OneSupportPerNode
    /\ Len(model.members) >= 2 /\ Len(model.supports) = 2
    /\ solve_out.value.reactions[1].node_id # solve_out.value.reactions[2].node_id
    /\ \E i \in 1..Len(model.nodes) :
          solve_out.value.nodes_with_displacements[i].displacement_x # 0

\* the presets, as materials.py lists them
SteelPreset ==
    [name |-> "steel", E |-> 200000, fy |-> 250, density |-> 7850,
     description |-> "Structural Steel (A36)"]
AluminumPreset ==
    [name |-> "aluminum", E |-> 69000, fy |-> 270, density |-> 2700,
     description |-> "Aluminum Alloy (6061-T6)"]
WoodPreset ==
    [name |-> "wood", E |-> 12000, fy |-> 40, density |-> 550,
     description |-> "Wood (Southern Pine)"]

\* C26: get_material resolves a name against the catalog {steel, aluminum,
\* wood} without regard to case and returns the fixed record of that name;
\* every other name raises an error; list_materials returns the three records.
C26_MaterialCatalog ==
    /\ api_out.route = "get_material" =>
          LET name == api_out.args.name
          IN /\ name \in {"steel", "Steel", "STEEL"}
                   => (~api_out.raised /\ api_out.body = SteelPreset)
             /\ name \in {"aluminum", "ALUMINUM"}
                   => (~api_out.raised /\ api_out.body = AluminumPreset)
             /\ name \in {"wood", "Wood"}
                   => (~api_out.raised /\ api_out.body = WoodPreset)
             /\ name \in {"concrete", "Concrete", ""}
                   => (api_out.raised /\ api_out.body = None
                          /\ api_out.detail.text = "Unknown material")
             /\ name \in {"steel", "Steel", "STEEL", "aluminum", "ALUMINUM", "wood", "Wood",
                           "concrete", "Concrete", ""}
    /\ api_out.route = "list_materials" =>
          /\ Len(api_out.body.materials) = 3
          /\ SeqRange(api_out.body.materials) = {SteelPreset, AluminumPreset, WoodPreset}

\* the aluminum record returned for the name in capitals
C26_Witness ==
    /\ api_out.route = "get_material" /\ api_out.args.name = "ALUMINUM"
    /\ ~api_out.raised /\ api_out.body.E = 69000 /\ api_out.body.name = "aluminum"

\* C28: save_analysis is an upsert keyed by analysis_id.  Whatever is saved
\* and deleted, the table holds at most one row per analysis_id; get_analysis
\* returns the value saved last under the id, and None if the id was never
\* saved or was deleted since; delete_analysis returns True exactly when a
\* row with the id existed.
C28_Upsert ==
    [][ /\ \A id \in AnalysisIds : Cardinality(RowsOf(db', id)) <= 1
        /\ api_out'.route = "get_analysis"
              => api_out'.body = saved'[api_out'.args.analysis_id]
        /\ api_out'.route = "delete_analysis"
              => /\ api_out'.body.deleted <=> (saved[api_out'.args.analysis_id] # None)
                 /\ saved'[api_out'.args.analysis_id] = None
      ]_vars

\* an analysis saved, saved again under the same id, and read back
C28_Witness ==
    /\ api_out.route = "get_analysis" /\ api_out.body # None
    /\ api_out.body = saved[api_out.args.analysis_id]
    /\ \E r \in db : /\ r.analysis_id = api_out.args.analysis_id
                      /\ r.updated_at > r.created_at
                      /\ r.material = "aluminum"

\* C30: reanalyze_structure on an existing completed analysis with a material
\* name that is not in the catalog answers 400 with the unknown-material
\* message, does not run the solver, and leaves the stored analysis as it was.
C30_UnknownMaterialRejected ==
    (/\ api_out.route = "reanalyze_structure"
     /\ "material" \in DOMAIN api_out.args.request
     /\ api_out.args.request["material"] = "concrete"
     /\ saved[api_out.args.analysis_id] # None
     /\ saved[api_out.args.analysis_id].status = "completed") =>
        /\ api_out.status_code = 400
        /\ api_out.detail.text = "Unknown material"
        /\ "solve" \notin SeqRange(api_out.calls)
        /\ get_analysis(db, api_out.args.analysis_id) = saved[api_out.args.analysis_id]

====
